---- MODULE Spec2Model ----
(***************************************************************************)
(* A model of the yoto sync tool: the fuzzy track matcher, the sync        *)
(* planner (generateSyncPlan), the target resolver (resolveYotoPlaylist)   *)
(* and the sync pipeline (sync), together with the two stores they act on: *)
(* the Yoto service's cards and the playlists.json association file.       *)
(*                                                                         *)
(* PlanSpec applies the planner and the commit to one card, sync after     *)
(* sync.  Spec follows one invocation of the sync command step by step.    *)
(***************************************************************************)
EXTENDS Integers, Sequences, FiniteSets, TLC

VARIABLES
    cards,            \* the Yoto service: card id -> the card, or NoCard
    playlists,        \* playlists.json: YouTube playlist id -> association
    pc,               \* where the invocation stands
    tempDir,          \* TRUE while ~/Desktop/yoto-temp exists
    options,          \* SyncOptions: [playlistName]
    youtubeInfo,      \* YouTubePlaylistInfo: [id, title, tracks]
    yotoTarget,       \* what resolveYotoPlaylist returned
    currentChapters,  \* the chapters read by getPlaylist at planning time
    plan,             \* the SyncPlan
    i,                \* the loop counter of the download and upload loops
    downloadedTracks, \* Map track.id -> file path, as a set of pairs
    uploadedTracks,   \* Map track.id -> asset key, as a set of pairs
    log,              \* the calls and prompts of this invocation, in order
    result,           \* how the invocation ended
    rejected,         \* TRUE when sync ended by throwing
    media,            \* the Yoto service: sha256 -> transcode status
    call,             \* the frame of the uploadAudio call under way
    runs,             \* overlapping invocations of sync: run -> its frame
    tempFiles,        \* the files in ~/Desktop/yoto-temp
    update,           \* the frame of the updatePlaylist call under way
    authFile,         \* ~/.config/yoto/auth.json
    now,              \* Math.floor(Date.now() / 1000)
    outcome           \* what the last auth command or API call did

\* What uploadAudio acts on, and what overlapping runs share.
uploadVars == <<media, call>>

workspaceVars == <<runs, tempFiles>>

\* What the step-by-step updatePlaylist acts on besides cards, and what the
\* auth commands act on.
cardVars == <<update>>

authVars == <<authFile, now, outcome>>

vars == <<cards, playlists, pc, tempDir, options, youtubeInfo, yotoTarget,
          currentChapters, plan, i, downloadedTracks, uploadedTracks, log,
          result, rejected, media, call, runs, tempFiles, update, authFile,
          now, outcome>>

(***************************************************************************)
(* Bounds and universes                                                    *)
(***************************************************************************)
\* longest YouTube playlist considered
MaxTracks == 2

\* Track titles: "a2" is a near-duplicate of "a"; "b" is unrelated to "a"
\* and sits exactly on the threshold against "a2".
Titles == {"a", "a2", "b"}

\* One video per title: YouTubeTrack {id, title} (url follows from id).
TrackOf(t) == [id |-> "v-" \o t, title |-> t]

Tracks == {TrackOf(t) : t \in Titles}

SeqsUpTo(S, n) == UNION {[1..k -> S] : k \in 0..n}

\* Every YouTube playlist content of at most MaxTracks tracks.
TrackLists == SeqsUpTo(Tracks, MaxTracks)

CardIds == {"c1", "c2"}

\* The order in which GET /content/mine lists the cards.
CardOrder == <<"c1", "c2">>

PlaylistIds == {"PL1", "PL2"}

(***************************************************************************)
(* Fuse.js, as fuzzyMatchTrack and fuzzyMatchPlaylist use it               *)
(***************************************************************************)
\* threshold: 0.4, in hundredths
Threshold == 40

\* The Fuse score of candidate title t for query q, in hundredths
\* (0 = identical).  The table stands for the library's Bitap score.
Score(q, t) ==
    IF q = t THEN 0
    ELSE IF {q, t} = {"a", "a2"} THEN 20
    ELSE IF {q, t} = {"a2", "b"} THEN Threshold
    ELSE 100

\* fuse.search(query): the indices of the candidates whose score is within
\* the threshold, best score first, equal scores in list order.
RECURSIVE SortResults(_, _, _)
SortResults(query, items, left) ==
    IF left = {} THEN <<>>
    ELSE LET best == CHOOSE k \in left : \A j \in left :
                        \/ Score(query, items[k].title) < Score(query, items[j].title)
                        \/ /\ Score(query, items[k].title) = Score(query, items[j].title)
                           /\ k <= j
         IN <<best>> \o SortResults(query, items, left \ {best})

FuseSearch(query, items) ==
    SortResults(query, items,
                {k \in 1..Len(items) : Score(query, items[k].title) <= Threshold})

\* fuzzyMatchTrack accepting a best score that is at the threshold.
fuzzyMatchTrackInclusive(youtubeTitle, yotoChapters) ==
    IF Len(yotoChapters) = 0 THEN 0
    ELSE LET results == FuseSearch(youtubeTitle, yotoChapters)
         IN IF Len(results) > 0
               /\ Score(youtubeTitle, yotoChapters[results[1]].title) <= Threshold
            THEN results[1]
            ELSE 0

\* fuzzyMatchTrack: the index in yotoChapters of the matched chapter, 0 for
\* null.  (A chapter object is referred to by its index in the array.)
fuzzyMatchTrack(youtubeTitle, yotoChapters) ==
    IF Len(yotoChapters) = 0 THEN 0
    ELSE LET results == FuseSearch(youtubeTitle, yotoChapters)
         IN IF Len(results) > 0
               /\ Score(youtubeTitle, yotoChapters[results[1]].title) < Threshold
            THEN results[1]
            ELSE 0

(***************************************************************************)
(* generateSyncPlan                                                        *)
(***************************************************************************)
\* A SyncPlanItem.  youtubeTrack and yotoChapter are references: the index
\* of the track in youtubeTracks and of the chapter in yotoChapters, 0 when
\* the field is absent.
KeepItem(n, ytTrack, m) ==
    [position |-> n, action |-> "keep", title |-> ytTrack.title,
     youtubeTrack |-> n, yotoChapter |-> m]

\* AddItem with the loop's 0-based index as the position.
AddItemZeroBased(n, ytTrack) ==
    [position |-> n - 1, action |-> "add", title |-> ytTrack.title,
     youtubeTrack |-> n, yotoChapter |-> 0]

AddItem(n, ytTrack) ==
    [position |-> n, action |-> "add", title |-> ytTrack.title,
     youtubeTrack |-> n, yotoChapter |-> 0]

\* RemoveItem carrying the chapter's place in the card as its position.
RemoveItemPositioned(m, chapter) ==
    [position |-> m, action |-> "remove", title |-> chapter.title,
     youtubeTrack |-> 0, yotoChapter |-> m]

RemoveItem(m, chapter) ==
    [position |-> -1, action |-> "remove", title |-> chapter.title,
     youtubeTrack |-> 0, yotoChapter |-> m]

\* Whether the source loop keeps track n: the match exists and its key is
\* not in matchedYotoChapters.
KeepsMatch(m, yotoChapters, matched) ==
    m # 0 /\ yotoChapters[m].key \notin matched

\* The loop over youtubeTracks; n is the loop's i + 1.
RECURSIVE SourcePass(_, _, _, _, _)
SourcePass(youtubeTracks, yotoChapters, n, items, matched) ==
    IF n > Len(youtubeTracks) THEN [items |-> items, matched |-> matched]
    ELSE LET ytTrack == youtubeTracks[n]
             m == fuzzyMatchTrack(ytTrack.title, yotoChapters)
         IN IF KeepsMatch(m, yotoChapters, matched)
            THEN SourcePass(youtubeTracks, yotoChapters, n + 1,
                            Append(items, KeepItem(n, ytTrack, m)),
                            matched \cup {yotoChapters[m].key})
            ELSE SourcePass(youtubeTracks, yotoChapters, n + 1,
                            Append(items, AddItem(n, ytTrack)), matched)

\* The loop over yotoChapters that emits the removals.
RECURSIVE RemovePass(_, _, _)
RemovePass(yotoChapters, m, matched) ==
    IF m > Len(yotoChapters) THEN <<>>
    ELSE (IF yotoChapters[m].key \notin matched
          THEN <<RemoveItem(m, yotoChapters[m])>> ELSE <<>>)
         \o RemovePass(yotoChapters, m + 1, matched)

CountAction(items, a) == Cardinality({k \in DOMAIN items : items[k].action = a})

\* generateSyncPlan without the loop that emits the removals.
generateSyncPlanNoRemovals(youtubeTracks, yotoChapters) ==
    LET pass == SourcePass(youtubeTracks, yotoChapters, 1, <<>>, {})
        items == pass.items
    IN [items |-> items,
        toKeep |-> CountAction(items, "keep"),
        toAdd |-> CountAction(items, "add"),
        toRemove |-> CountAction(items, "remove")]

generateSyncPlan(youtubeTracks, yotoChapters) ==
    LET pass == SourcePass(youtubeTracks, yotoChapters, 1, <<>>, {})
        items == pass.items \o RemovePass(yotoChapters, 1, pass.matched)
    IN [items |-> items,
        toKeep |-> CountAction(items, "keep"),
        toAdd |-> CountAction(items, "add"),
        toRemove |-> CountAction(items, "remove")]

NoPlan == [items |-> <<>>, toKeep |-> 0, toAdd |-> 0, toRemove |-> 0]

(***************************************************************************)
(* Chapters and the commit                                                 *)
(***************************************************************************)
\* String(position - 1).padStart(2, "0")
ChapterKey(position) ==
    IF position - 1 < 10 THEN "0" \o ToString(position - 1)
    ELSE ToString(position - 1)

\* createChapter: a chapter of one track whose trackUrl is the asset; no
\* icon.  (duration and fileSize travel with the asset and are left out.)
createChapter(title, transcodedSha256, position) ==
    [key |-> ChapterKey(position), title |-> title,
     trackUrl |-> "yoto:#" \o transcodedSha256, icon |-> "none"]

\* downloadTrack's result: join(outputDir, `${track.id}.mp3`)
FilePath(track) == track.id \o ".mp3"

\* uploadAudio's result key: the transcoded hash of the file's content
AssetKey(filePath) == "sha-" \o filePath

MapGet(map, k) == (CHOOSE p \in map : p[1] = k)[2]

MapSet(map, k, v) == {p \in map : p[1] # k} \cup {<<k, v>>}

\* ItemChapter giving a kept chapter the title of the source track.
ItemChapterRetitled(item, tracks, chapters, uploaded) ==
    IF item.action = "keep" /\ item.yotoChapter # 0
    THEN <<[chapters[item.yotoChapter] EXCEPT !.title = item.title]>>
    ELSE IF item.action = "add" /\ item.youtubeTrack # 0
    THEN <<createChapter(tracks[item.youtubeTrack].title,
                         MapGet(uploaded, tracks[item.youtubeTrack].id),
                         item.position)>>
    ELSE <<>>

\* Step 8 of sync: the chapter of one non-remove plan item.
ItemChapter(item, tracks, chapters, uploaded) ==
    IF item.action = "keep" /\ item.yotoChapter # 0
    THEN <<chapters[item.yotoChapter]>>
    ELSE IF item.action = "add" /\ item.youtubeTrack # 0
    THEN <<createChapter(tracks[item.youtubeTrack].title,
                         MapGet(uploaded, tracks[item.youtubeTrack].id),
                         item.position)>>
    ELSE <<>>

RECURSIVE Flatten(_)
Flatten(ss) == IF ss = <<>> THEN <<>> ELSE Head(ss) \o Flatten(Tail(ss))

\* newChapters with the uploaded chapters first and the kept ones after.
NewChaptersAddsFirst(p, tracks, chapters, uploaded) ==
    Flatten([k \in DOMAIN p.items |->
                IF p.items[k].action = "add"
                THEN ItemChapter(p.items[k], tracks, chapters, uploaded)
                ELSE <<>>])
    \o Flatten([k \in DOMAIN p.items |->
                   IF p.items[k].action = "keep"
                   THEN ItemChapter(p.items[k], tracks, chapters, uploaded)
                   ELSE <<>>])

\* Step 8 of sync: newChapters when there is something to add.
NewChapters(p, tracks, chapters, uploaded) ==
    Flatten([k \in DOMAIN p.items |->
                IF p.items[k].action # "remove"
                THEN ItemChapter(p.items[k], tracks, chapters, uploaded)
                ELSE <<>>])

\* The removal-only branch: the kept chapters.
KeptChapters(p, chapters) ==
    Flatten([k \in DOMAIN p.items |->
                IF p.items[k].action = "keep" /\ p.items[k].yotoChapter # 0
                THEN <<chapters[p.items[k].yotoChapter]>>
                ELSE <<>>])

\* The chapter list a confirmed run of sync writes for plan p.
CommitList(p, tracks, chapters, uploaded) ==
    IF p.toAdd > 0 THEN NewChapters(p, tracks, chapters, uploaded)
    ELSE KeptChapters(p, chapters)

\* uploadedTracks once every add item went through download and upload.
AllUploaded(p, tracks) ==
    {<<tracks[p.items[k].youtubeTrack].id,
       AssetKey(FilePath(tracks[p.items[k].youtubeTrack]))>> :
        k \in {j \in DOMAIN p.items : p.items[j].action = "add"}}

(***************************************************************************)
(* The stores                                                              *)
(***************************************************************************)
\* No card under an id.
NoCard == [exists |-> FALSE, cardId |-> "", title |-> "", chapters |-> <<>>,
           activity |-> "", restricted |-> FALSE,
           config |-> [onlineOnly |-> FALSE], version |-> "",
           metadata |-> [cover |-> ""]]

\* The card POST /content makes of what createPlaylist sends.
Card(cardId, title, chapters) ==
    [exists |-> TRUE, cardId |-> cardId, title |-> title,
     chapters |-> chapters, activity |-> "yoto_Player", restricted |-> TRUE,
     config |-> [onlineOnly |-> FALSE], version |-> "1",
     metadata |-> [cover |-> "bee_grapefruit.gif"]]

\* A card the owner made and never synced, and one holding the chapter an
\* earlier sync of track "a" created, with an icon set in the Yoto app.
SeedLists ==
    {<<>>,
     <<[createChapter("a", AssetKey(FilePath(TrackOf("a"))), 1)
            EXCEPT !.icon = "star"]>>}

NoAssociation == [yotoId |-> "", yotoName |-> "", youtubeName |-> "",
                  lastSynced |-> ""]

NoTarget == [cardId |-> "", title |-> "", isNew |-> FALSE]

NoInfo == [id |-> "", title |-> "", tracks |-> <<>>]

\* GET /content/mine: the summaries of the existing cards.
RECURSIVE Summaries(_, _)
Summaries(cs, order) ==
    IF order = <<>> THEN <<>>
    ELSE (IF cs[Head(order)].exists
          THEN <<[cardId |-> Head(order), title |-> cs[Head(order)].title]>>
          ELSE <<>>) \o Summaries(cs, Tail(order))

listPlaylists == Summaries(cards, CardOrder)

\* fuzzyMatchPlaylist: every result of the search, best first.
fuzzyMatchPlaylist(name, yotoPlaylists) ==
    LET results == FuseSearch(name, yotoPlaylists)
    IN [k \in DOMAIN results |-> yotoPlaylists[results[k]]]

\* The id the service gives the next created card.
FreeCards == {c \in CardIds : ~cards[c].exists}

NewCardId == CHOOSE c \in FreeCards :
                 \A k \in 1..Len(CardOrder) :
                     CardOrder[k] \in FreeCards =>
                         \E j \in 1..k : CardOrder[j] = c

\* createPlaylist(title): POST /content with no chapters.
createPlaylist(title) ==
    [cards EXCEPT ![NewCardId] = Card(NewCardId, title, <<>>)]

\* updatePlaylist(cardId, {chapters}): the existing card with the chapters
\* replaced.
updatePlaylist(cardId, chapters) ==
    [cards EXCEPT ![cardId].chapters = chapters]

\* setPlaylistAssociation writing a file that holds the new entry only.
setPlaylistAssociationAlone(youtubePlaylistId, association) ==
    [y \in PlaylistIds |->
        IF y = youtubePlaylistId THEN association ELSE NoAssociation]

\* setPlaylistAssociation: read the file, set the entry, write the file.
setPlaylistAssociation(youtubePlaylistId, association) ==
    [playlists EXCEPT ![youtubePlaylistId] = association]

Call(name, arg) == <<name, arg>>

(***************************************************************************)
(* The transcode store of the service, and the frames of uploadAudio and   *)
(* of overlapping runs                                                     *)
(***************************************************************************)
\* The files uploadAudio is called on.
UploadFiles == {FilePath(TrackOf("a")), FilePath(TrackOf("b"))}

\* calculateFileSha256: the hash of the file's content.
calculateFileSha256(filePath) == "sha256-" \o filePath

Shas == {calculateFileSha256(f) : f \in UploadFiles}

\* What GET /media/upload/{sha256}/transcoded answers for a hash: the phase
\* ("none" when the service has never seen the hash) and the transcoded
\* hash ("" until the service has set it).
NoStatus == [phase |-> "none", transcodedSha256 |-> ""]

NoMedia == [h \in Shas |-> NoStatus]

\* The status is complete and carries a transcoded hash.
IsComplete(status) ==
    status.phase = "complete" /\ status.transcodedSha256 # ""

\* const maxAttempts = 60
maxAttempts == 60

\* No uploadAudio call was made yet.  earlier: the key each file's last
\* successful call returned ("" for none).
NoCall == [pc |-> "idle", filePath |-> "", firstCheck |-> "", urlRequests |-> 0,
           puts |-> 0, attempt |-> 0, polls |-> 0, key |-> "", error |-> "",
           earlier |-> [f \in UploadFiles |-> ""]]

RunIds == {"r1", "r2"}

\* A run that has not started.  fetched: the files it has downloaded and
\* not yet uploaded; dirAtStart: whether the directory existed before the
\* run's mkdir.
NoRun == [pc |-> "idle", toAdd |-> <<>>, i |-> 0, fetched |-> {},
          dirAtStart |-> FALSE, error |-> ""]

NoRuns == [r \in RunIds |-> NoRun]

\* No updatePlaylist call was made yet.  updates: the title and the
\* chapters given, each as a sequence of length 0 (absent) or 1.
NoUpdate == [pc |-> "idle", cardId |-> "",
             updates |-> [title |-> <<>>, chapters |-> <<>>],
             existing |-> NoCard, posted |-> NoCard]

\* auth.json does not exist: readAuth returns null.
NoAuth == [exists |-> FALSE, accessToken |-> "", expiresAt |-> 0]

\* A token as pasted at the prompt: with or without "Bearer ", a JWT that
\* decodes or not, and its exp claim (<<>>: the payload has none).
NoTokenInput == [bearer |-> FALSE, jwt |-> "", wellFormed |-> FALSE,
                 exp |-> <<>>]

\* No command was run yet.  at, before: the clock and auth.json when the
\* command ran; sent: whether a request left for the service.
NoOutcome == [cmd |-> "", ok |-> FALSE, value |-> "", sent |-> FALSE, at |-> 0,
              before |-> NoAuth, token |-> NoTokenInput]

\* What the small specifications leave alone of the sync invocation.
syncVars == <<cards, pc, tempDir, options, youtubeInfo, yotoTarget,
              currentChapters, plan, i, downloadedTracks, uploadedTracks,
              result, rejected>>

(***************************************************************************)
(* PlanSpec: the planner and the commit on card c1, sync after sync       *)
(***************************************************************************)
PlanInit ==
    /\ \E seed \in SeedLists :
           cards = [c \in CardIds |->
                       IF c = "c1"
                       THEN Card("c1", "a", seed)
                       ELSE NoCard]
    /\ playlists = [y \in PlaylistIds |-> NoAssociation]
    /\ pc = "idle"
    /\ tempDir = FALSE
    /\ options = [playlistName |-> ""]
    /\ youtubeInfo = NoInfo
    /\ yotoTarget = [cardId |-> "c1", title |-> "a", isNew |-> FALSE]
    /\ currentChapters = <<>>
    /\ plan = NoPlan
    /\ i = 0
    /\ downloadedTracks = {}
    /\ uploadedTracks = {}
    /\ log = <<>>
    /\ result = ""
    /\ rejected = FALSE
    /\ update = NoUpdate
    /\ authFile = NoAuth
    /\ now = 1
    /\ outcome = NoOutcome
    /\ media = NoMedia
    /\ call = NoCall
    /\ runs = NoRuns
    /\ tempFiles = {}

\* generateSyncPlan applied to a track list (any list: the planner is a
\* pure function) and the chapters the card holds.
SyncPlanStep ==
    /\ pc \in {"idle", "planned", "committed"}
    /\ \E tracks \in TrackLists :
           /\ youtubeInfo' = [id |-> "PL1", title |-> "a", tracks |-> tracks]
           /\ currentChapters' = cards[yotoTarget.cardId].chapters
           /\ plan' = generateSyncPlan(tracks, cards[yotoTarget.cardId].chapters)
    /\ pc' = "planned"
    /\ UNCHANGED <<cards, playlists, tempDir, options, yotoTarget, i,
                   downloadedTracks, uploadedTracks, log, result, rejected>>
    /\ UNCHANGED <<uploadVars, workspaceVars, cardVars, authVars>>

\* Steps 6 to 9 of sync with every download and upload succeeding: the
\* card's chapters become the list built from the plan.  getPlaylistInfo
\* rejects an empty playlist, so sync never commits for one.
SyncCommitStep ==
    /\ pc = "planned"
    /\ Len(youtubeInfo.tracks) > 0
    /\ plan.toAdd > 0 \/ plan.toRemove > 0
    /\ uploadedTracks' = AllUploaded(plan, youtubeInfo.tracks)
    /\ cards' = updatePlaylist(yotoTarget.cardId,
                    CommitList(plan, youtubeInfo.tracks, currentChapters,
                               AllUploaded(plan, youtubeInfo.tracks)))
    /\ pc' = "committed"
    /\ UNCHANGED <<playlists, tempDir, options, youtubeInfo, yotoTarget,
                   currentChapters, plan, i, downloadedTracks, log, result, rejected>>
    /\ UNCHANGED <<uploadVars, workspaceVars, cardVars, authVars>>

PlanNext == SyncPlanStep \/ SyncCommitStep

PlanSpec == PlanInit /\ [][PlanNext]_vars

(***************************************************************************)
(* Spec: one invocation of the sync command, step by step                  *)
(***************************************************************************)
\* The chapter lists card c1 may hold when the command starts: a seed, or
\* what one earlier sync committed onto a seed.
PriorLists ==
    SeedLists \cup
    {CommitList(generateSyncPlan(ts, seed), ts, seed,
                AllUploaded(generateSyncPlan(ts, seed), ts)) :
        ts \in TrackLists \ {<<>>}, seed \in SeedLists}

\* The associations playlists.json may hold for the playlist: none, or one
\* an earlier sync wrote (the card may have been deleted since).
PriorAssociations ==
    {NoAssociation} \cup
    {[yotoId |-> c, yotoName |-> IF c = "c1" THEN "a" ELSE "a2",
      youtubeName |-> "b", lastSynced |-> "earlier"] : c \in CardIds}

Init ==
    /\ \E chapters \in PriorLists, c2 \in BOOLEAN :
           cards = [c \in CardIds |->
                       IF c = "c1"
                       THEN Card("c1", "a", chapters)
                       ELSE IF c2
                       THEN Card("c2", "a2", <<>>)
                       ELSE NoCard]
    /\ \E a \in PriorAssociations :
           playlists = [y \in PlaylistIds |->
                           IF y = "PL1" THEN a ELSE NoAssociation]
    /\ pc = "start"
    /\ tempDir = FALSE
    /\ \E name \in {"", "a", "b"} : options = [playlistName |-> name]
    /\ youtubeInfo = NoInfo
    /\ yotoTarget = NoTarget
    /\ currentChapters = <<>>
    /\ plan = NoPlan
    /\ i = 0
    /\ downloadedTracks = {}
    /\ uploadedTracks = {}
    /\ log = <<>>
    /\ result = ""
    /\ rejected = FALSE
    /\ update = NoUpdate
    /\ authFile = NoAuth
    /\ now = 1
    /\ outcome = NoOutcome
    /\ media = NoMedia
    /\ call = NoCall
    /\ runs = NoRuns
    /\ tempFiles = {}

\* The end of sync without the finally block.
FinishNoCleanup(r) ==
    /\ tempDir' = tempDir
    /\ pc' = "done"
    /\ result' = r

\* The finally block of sync, then the promise settling with r.
Finish(r) ==
    /\ tempDir' = FALSE
    /\ pc' = "done"
    /\ result' = r

\* sync throws: the promise rejects with an Error whose message is r.
Throws(r) == Finish(r) /\ rejected' = TRUE

\* sync returns after printing r.
Returns(r) == Finish(r) /\ rejected' = FALSE

\* mkdir(tempDir, {recursive: true})
Start ==
    /\ pc = "start"
    /\ tempDir' = TRUE
    /\ pc' = "getPlaylistInfo"
    /\ log' = Append(log, Call("mkdir", ""))
    /\ UNCHANGED <<cards, playlists, options, youtubeInfo, yotoTarget,
                   currentChapters, plan, i, downloadedTracks, uploadedTracks,
                   result, rejected>>
    /\ UNCHANGED <<uploadVars, workspaceVars, cardVars, authVars>>

\* Step 1: getPlaylistInfo resolves with a playlist of at least one track.
GetPlaylistInfoOk ==
    /\ pc = "getPlaylistInfo"
    /\ \E tracks \in TrackLists \ {<<>>} :
           youtubeInfo' = [id |-> "PL1", title |-> "b", tracks |-> tracks]
    /\ pc' = "resolve"
    /\ log' = Append(log, Call("getPlaylistInfo", ""))
    /\ UNCHANGED <<cards, playlists, tempDir, options, yotoTarget,
                   currentChapters, plan, i, downloadedTracks, uploadedTracks,
                   result, rejected>>
    /\ UNCHANGED <<uploadVars, workspaceVars, cardVars, authVars>>

\* Step 1: getPlaylistInfo rejects (yt-dlp fails, or no track is found).
GetPlaylistInfoFail ==
    /\ pc = "getPlaylistInfo"
    /\ log' = Append(log, Call("getPlaylistInfo", "throws"))
    /\ Throws("PlanningError")
    /\ UNCHANGED <<cards, playlists, options, youtubeInfo, yotoTarget,
                   currentChapters, plan, i, downloadedTracks, uploadedTracks>>
    /\ UNCHANGED <<uploadVars, workspaceVars, cardVars, authVars>>

\* What the resolver leaves alone besides cards, yotoTarget, log and the end.
ResolverFrame ==
    UNCHANGED <<playlists, options, youtubeInfo, currentChapters, plan, i,
                downloadedTracks, uploadedTracks>>

Resolved(target) ==
    /\ yotoTarget' = target
    /\ pc' = "getPlaylist"
    /\ UNCHANGED <<tempDir, result, rejected>>
    /\ ResolverFrame

\* resolveYotoPlaylist: listPlaylists rejects.
ResolveListFail ==
    /\ pc = "resolve"
    /\ log' = Append(log, Call("listPlaylists", "throws"))
    /\ Throws("PlanningError")
    /\ UNCHANGED <<cards, yotoTarget>>
    /\ ResolverFrame
    /\ UNCHANGED <<uploadVars, workspaceVars, cardVars, authVars>>

\* The operator declines to create a card and the card is created anyway.
ResolveNameDeclineIgnored ==
    /\ pc = "resolve"
    /\ options.playlistName # ""
    /\ Len(fuzzyMatchPlaylist(options.playlistName, listPlaylists)) = 0
    /\ FreeCards # {}
    /\ cards' = createPlaylist(youtubeInfo.title)
    /\ log' = log \o <<Call("listPlaylists", ""), Call("confirm:create", "no"),
                       Call("createPlaylist", NewCardId)>>
    /\ Resolved([cardId |-> NewCardId, title |-> youtubeInfo.title,
                 isNew |-> TRUE])
    /\ UNCHANGED <<uploadVars, workspaceVars, cardVars, authVars>>

\* --playlist given, no match, the operator declines to create a card.
ResolveNameDecline ==
    /\ pc = "resolve"
    /\ options.playlistName # ""
    /\ Len(fuzzyMatchPlaylist(options.playlistName, listPlaylists)) = 0
    /\ log' = log \o <<Call("listPlaylists", ""), Call("confirm:create", "no")>>
    /\ Throws("Sync cancelled")
    /\ UNCHANGED <<cards, yotoTarget>>
    /\ ResolverFrame
    /\ UNCHANGED <<uploadVars, workspaceVars, cardVars, authVars>>

\* --playlist given, no match, the operator creates a card and names it.
ResolveNameCreate ==
    /\ pc = "resolve"
    /\ options.playlistName # ""
    /\ Len(fuzzyMatchPlaylist(options.playlistName, listPlaylists)) = 0
    /\ FreeCards # {}
    /\ \E newTitle \in {youtubeInfo.title, options.playlistName} :
           /\ cards' = createPlaylist(newTitle)
           /\ log' = log \o <<Call("listPlaylists", ""),
                              Call("confirm:create", "yes"),
                              Call("input", newTitle),
                              Call("createPlaylist", NewCardId)>>
           /\ Resolved([cardId |-> NewCardId, title |-> newTitle,
                        isNew |-> TRUE])
    /\ UNCHANGED <<uploadVars, workspaceVars, cardVars, authVars>>

\* --playlist given, exactly one match.
ResolveNameOne ==
    /\ pc = "resolve"
    /\ options.playlistName # ""
    /\ LET matches == fuzzyMatchPlaylist(options.playlistName, listPlaylists)
       IN /\ Len(matches) = 1
          /\ Resolved([cardId |-> matches[1].cardId,
                       title |-> matches[1].title, isNew |-> FALSE])
    /\ log' = Append(log, Call("listPlaylists", ""))
    /\ UNCHANGED cards
    /\ UNCHANGED <<uploadVars, workspaceVars, cardVars, authVars>>

\* --playlist given, several matches, the operator selects one of them.
ResolveNameSelect ==
    /\ pc = "resolve"
    /\ options.playlistName # ""
    /\ LET matches == fuzzyMatchPlaylist(options.playlistName, listPlaylists)
       IN /\ Len(matches) > 1
          /\ \E k \in DOMAIN matches :
                 /\ Resolved([cardId |-> matches[k].cardId,
                              title |-> matches[k].title, isNew |-> FALSE])
                 /\ log' = log \o <<Call("listPlaylists", ""),
                                    Call("select:match", matches[k].cardId)>>
    /\ UNCHANGED cards
    /\ UNCHANGED <<uploadVars, workspaceVars, cardVars, authVars>>

\* getPlaylistAssociation finding no entry in playlists.json.
getPlaylistAssociationForgets(youtubePlaylistId) == NoAssociation

\* readPlaylists()[youtubePlaylistId] ?? null
getPlaylistAssociation(youtubePlaylistId) == playlists[youtubePlaylistId]

\* ResolveAssociation reached although --playlist was given.
ResolveAssociationIgnoringName ==
    /\ pc = "resolve"
    /\ LET association == getPlaylistAssociation(youtubeInfo.id)
       IN /\ association # NoAssociation
          /\ Resolved([cardId |-> association.yotoId,
                       title |-> association.yotoName, isNew |-> FALSE])
    /\ log' = log \o <<Call("listPlaylists", ""),
                       Call("getPlaylistAssociation", youtubeInfo.id),
                       Call("confirm:use", "yes")>>
    /\ UNCHANGED cards
    /\ UNCHANGED <<uploadVars, workspaceVars, cardVars, authVars>>

\* No --playlist, a saved association, the operator accepts it.
ResolveAssociation ==
    /\ pc = "resolve"
    /\ options.playlistName = ""
    /\ LET association == getPlaylistAssociation(youtubeInfo.id)
       IN /\ association # NoAssociation
          /\ Resolved([cardId |-> association.yotoId,
                       title |-> association.yotoName, isNew |-> FALSE])
    /\ log' = log \o <<Call("listPlaylists", ""),
                       Call("getPlaylistAssociation", youtubeInfo.id),
                       Call("confirm:use", "yes")>>
    /\ UNCHANGED cards
    /\ UNCHANGED <<uploadVars, workspaceVars, cardVars, authVars>>

\* The choices of "Select a Yoto playlist or create new:".
FallbackChoices ==
    <<"new">> \o [k \in DOMAIN listPlaylists |-> listPlaylists[k].cardId]

\* The choices as the prompt lists them, one after the other.
RECURSIVE ChoiceList(_)
ChoiceList(choices) ==
    IF choices = <<>> THEN ""
    ELSE Head(choices) \o "," \o ChoiceList(Tail(choices))

\* The prompts before step 3 of the resolver: the association was declined,
\* or there is none.
FallbackPrompts ==
    <<Call("listPlaylists", ""),
      Call("getPlaylistAssociation", youtubeInfo.id)>> \o
    (IF getPlaylistAssociation(youtubeInfo.id) # NoAssociation
     THEN <<Call("confirm:use", "no")>> ELSE <<>>) \o
    <<Call("select:choices", ChoiceList(FallbackChoices))>>

\* No --playlist: the operator picks "Create new playlist" and names it.
ResolveSelectNew ==
    /\ pc = "resolve"
    /\ options.playlistName = ""
    /\ FreeCards # {}
    /\ cards' = createPlaylist(youtubeInfo.title)
    /\ log' = log \o FallbackPrompts \o <<Call("select", "new"),
                                   Call("input", youtubeInfo.title),
                                   Call("createPlaylist", NewCardId)>>
    /\ Resolved([cardId |-> NewCardId, title |-> youtubeInfo.title,
                 isNew |-> TRUE])
    /\ UNCHANGED <<uploadVars, workspaceVars, cardVars, authVars>>

\* No --playlist: the operator picks one of the existing cards.
ResolveSelectExisting ==
    /\ pc = "resolve"
    /\ options.playlistName = ""
    /\ \E k \in DOMAIN listPlaylists :
           /\ Resolved([cardId |-> listPlaylists[k].cardId,
                        title |-> listPlaylists[k].title, isNew |-> FALSE])
           /\ log' = log \o FallbackPrompts \o
                     <<Call("select", listPlaylists[k].cardId)>>
    /\ UNCHANGED cards
    /\ UNCHANGED <<uploadVars, workspaceVars, cardVars, authVars>>

\* The operator asks for a new card and createPlaylist rejects (the request
\* fails, or the service has no room for another card).
ResolveCreateFail ==
    /\ pc = "resolve"
    /\ options.playlistName # "" =>
           Len(fuzzyMatchPlaylist(options.playlistName, listPlaylists)) = 0
    /\ log' = log \o
              (IF options.playlistName # ""
               THEN <<Call("listPlaylists", ""), Call("confirm:create", "yes")>>
               ELSE FallbackPrompts \o <<Call("select", "new")>>) \o
              <<Call("input", youtubeInfo.title), Call("createPlaylist", "throws")>>
    /\ Throws("PlanningError")
    /\ UNCHANGED <<cards, yotoTarget>>
    /\ ResolverFrame
    /\ UNCHANGED <<uploadVars, workspaceVars, cardVars, authVars>>

\* Step 3: getPlaylist rejects (the card is gone, or the request fails).
GetPlaylistFail ==
    /\ pc = "getPlaylist"
    /\ log' = Append(log, Call("getPlaylist", "throws"))
    /\ Throws("PlanningError")
    /\ UNCHANGED <<cards, playlists, options, youtubeInfo, yotoTarget,
                   currentChapters, plan, i, downloadedTracks, uploadedTracks>>
    /\ UNCHANGED <<uploadVars, workspaceVars, cardVars, authVars>>

\* PlanAndPrint without the early return of step 5.
PlanAndPrintNoShortCircuit ==
    /\ pc = "getPlaylist"
    /\ cards[yotoTarget.cardId].exists
    /\ currentChapters' = cards[yotoTarget.cardId].chapters
    /\ plan' = generateSyncPlan(youtubeInfo.tracks,
                                cards[yotoTarget.cardId].chapters)
    /\ log' = log \o <<Call("getPlaylist", yotoTarget.cardId),
                       Call("printSyncPlan", "")>>
    /\ pc' = "confirm"
    /\ UNCHANGED <<cards, playlists, tempDir, options, youtubeInfo, yotoTarget,
                   i, downloadedTracks, uploadedTracks, result, rejected>>
    /\ UNCHANGED <<uploadVars, workspaceVars, cardVars, authVars>>

\* Steps 3 to 5: read the chapters, generate and print the plan; return
\* at once when there is nothing to add or remove.
PlanAndPrint ==
    /\ pc = "getPlaylist"
    /\ cards[yotoTarget.cardId].exists
    /\ LET chapters == cards[yotoTarget.cardId].chapters
           p == generateSyncPlan(youtubeInfo.tracks, chapters)
       IN /\ currentChapters' = chapters
          /\ plan' = p
          /\ log' = log \o <<Call("getPlaylist", yotoTarget.cardId),
                             Call("printSyncPlan", "")>>
          /\ IF p.toAdd = 0 /\ p.toRemove = 0
             THEN Returns("Playlist is already in sync!")
             ELSE pc' = "confirm" /\ UNCHANGED <<tempDir, result, rejected>>
    /\ UNCHANGED <<cards, playlists, options, youtubeInfo, yotoTarget, i,
                   downloadedTracks, uploadedTracks>>
    /\ UNCHANGED <<uploadVars, workspaceVars, cardVars, authVars>>

\* plan.items.filter(i => i.action === "add")
tracksToAdd == SelectSeq(plan.items, LAMBDA item : item.action = "add")

\* ConfirmContinue without the removal-only branch of the commit.
ConfirmContinueSkipsRemovals ==
    /\ pc = "confirm"
    /\ log' = Append(log, Call("confirm:continue", "yes"))
    /\ pc' = IF Len(tracksToAdd) > 0 THEN "download" ELSE "persist"
    /\ i' = 1
    /\ UNCHANGED <<cards, playlists, tempDir, options, youtubeInfo, yotoTarget,
                   currentChapters, plan, downloadedTracks, uploadedTracks,
                   result, rejected>>
    /\ UNCHANGED <<uploadVars, workspaceVars, cardVars, authVars>>

\* Step 5: "Continue with sync?" answered yes.
ConfirmContinue ==
    /\ pc = "confirm"
    /\ log' = Append(log, Call("confirm:continue", "yes"))
    /\ pc' = IF Len(tracksToAdd) > 0 THEN "download" ELSE "update"
    /\ i' = 1
    /\ UNCHANGED <<cards, playlists, tempDir, options, youtubeInfo, yotoTarget,
                   currentChapters, plan, downloadedTracks, uploadedTracks,
                   result, rejected>>
    /\ UNCHANGED <<uploadVars, workspaceVars, cardVars, authVars>>

\* "Continue with sync?" answered no, and the answer ignored.
ConfirmDeclineIgnored ==
    /\ pc = "confirm"
    /\ log' = Append(log, Call("confirm:continue", "no"))
    /\ pc' = IF Len(tracksToAdd) > 0 THEN "download" ELSE "update"
    /\ i' = 1
    /\ UNCHANGED <<cards, playlists, tempDir, options, youtubeInfo, yotoTarget,
                   currentChapters, plan, downloadedTracks, uploadedTracks,
                   result, rejected>>
    /\ UNCHANGED <<uploadVars, workspaceVars, cardVars, authVars>>

\* Step 5: "Continue with sync?" answered no: sync returns.
ConfirmDecline ==
    /\ pc = "confirm"
    /\ log' = Append(log, Call("confirm:continue", "no"))
    /\ Returns("Sync cancelled")
    /\ UNCHANGED <<cards, playlists, options, youtubeInfo, yotoTarget,
                   currentChapters, plan, i, downloadedTracks, uploadedTracks>>
    /\ UNCHANGED <<uploadVars, workspaceVars, cardVars, authVars>>

\* The items to add taken from the last to the first.
TrackToAddReversed(n) ==
    youtubeInfo.tracks[tracksToAdd[Len(tracksToAdd) + 1 - n].youtubeTrack]

\* The track of the i-th item to add.
TrackToAdd(n) == youtubeInfo.tracks[tracksToAdd[n].youtubeTrack]

\* Step 6: the i-th download resolves.
DownloadTrackOk ==
    /\ pc = "download"
    /\ downloadedTracks' = MapSet(downloadedTracks, TrackToAdd(i).id,
                                  FilePath(TrackToAdd(i)))
    /\ log' = Append(log, Call("downloadTrack", TrackToAdd(i).id))
    /\ IF i < Len(tracksToAdd)
       THEN i' = i + 1 /\ pc' = "download"
       ELSE i' = 1 /\ pc' = "upload"
    /\ UNCHANGED <<cards, playlists, tempDir, options, youtubeInfo, yotoTarget,
                   currentChapters, plan, uploadedTracks, result, rejected>>
    /\ UNCHANGED <<uploadVars, workspaceVars, cardVars, authVars>>

\* The i-th download rejects and the loop goes on.
DownloadTrackFailSwallowed ==
    /\ pc = "download"
    /\ downloadedTracks' = MapSet(downloadedTracks, TrackToAdd(i).id,
                                  FilePath(TrackToAdd(i)))
    /\ log' = Append(log, Call("downloadTrack", "throws"))
    /\ IF i < Len(tracksToAdd)
       THEN i' = i + 1 /\ pc' = "download"
       ELSE i' = 1 /\ pc' = "upload"
    /\ UNCHANGED <<cards, playlists, tempDir, options, youtubeInfo, yotoTarget,
                   currentChapters, plan, uploadedTracks, result, rejected>>
    /\ UNCHANGED <<uploadVars, workspaceVars, cardVars, authVars>>

\* Step 6: the i-th download rejects; the error is rethrown.
DownloadTrackFail ==
    /\ pc = "download"
    /\ log' = Append(log, Call("downloadTrack", "throws"))
    /\ Throws("FetchFailed")
    /\ UNCHANGED <<cards, playlists, options, youtubeInfo, yotoTarget,
                   currentChapters, plan, i, downloadedTracks, uploadedTracks>>
    /\ UNCHANGED <<uploadVars, workspaceVars, cardVars, authVars>>

\* Step 7: the i-th upload resolves with the asset of the downloaded file.
UploadAudioOk ==
    /\ pc = "upload"
    /\ uploadedTracks' =
           MapSet(uploadedTracks, TrackToAdd(i).id,
                  AssetKey(MapGet(downloadedTracks, TrackToAdd(i).id)))
    /\ log' = Append(log, Call("uploadAudio", TrackToAdd(i).id))
    /\ IF i < Len(tracksToAdd)
       THEN i' = i + 1 /\ pc' = "upload"
       ELSE i' = 1 /\ pc' = "update"
    /\ UNCHANGED <<cards, playlists, tempDir, options, youtubeInfo, yotoTarget,
                   currentChapters, plan, downloadedTracks, result, rejected>>
    /\ UNCHANGED <<uploadVars, workspaceVars, cardVars, authVars>>

\* The i-th upload rejects and the loop goes on.
UploadAudioFailSwallowed ==
    /\ pc = "upload"
    /\ uploadedTracks' = MapSet(uploadedTracks, TrackToAdd(i).id, "")
    /\ log' = Append(log, Call("uploadAudio", "throws"))
    /\ IF i < Len(tracksToAdd)
       THEN i' = i + 1 /\ pc' = "upload"
       ELSE i' = 1 /\ pc' = "update"
    /\ UNCHANGED <<cards, playlists, tempDir, options, youtubeInfo, yotoTarget,
                   currentChapters, plan, downloadedTracks, result, rejected>>
    /\ UNCHANGED <<uploadVars, workspaceVars, cardVars, authVars>>

\* Step 7: the i-th upload rejects; the error is rethrown.
UploadAudioFail ==
    /\ pc = "upload"
    /\ log' = Append(log, Call("uploadAudio", "throws"))
    /\ Throws("PublishFailed")
    /\ UNCHANGED <<cards, playlists, options, youtubeInfo, yotoTarget,
                   currentChapters, plan, i, downloadedTracks, uploadedTracks>>
    /\ UNCHANGED <<uploadVars, workspaceVars, cardVars, authVars>>

\* The chapter list written one chapter after the other: the first write.
UpdatePlaylistOkPiecewise ==
    /\ pc = "update"
    /\ cards[yotoTarget.cardId].exists
    /\ LET list == CommitList(plan, youtubeInfo.tracks, currentChapters,
                              uploadedTracks)
       IN cards' = updatePlaylist(yotoTarget.cardId,
                                  SubSeq(list, 1, IF Len(list) > 1 THEN 1
                                                  ELSE Len(list)))
    /\ log' = Append(log, Call("updatePlaylist", yotoTarget.cardId))
    /\ pc' = "persist"
    /\ UNCHANGED <<playlists, tempDir, options, youtubeInfo, yotoTarget,
                   currentChapters, plan, i, downloadedTracks, uploadedTracks,
                   result, rejected>>
    /\ UNCHANGED <<uploadVars, workspaceVars, cardVars, authVars>>

\* Steps 8 and 9: build the chapter list and write it.
UpdatePlaylistOk ==
    /\ pc = "update"
    /\ cards[yotoTarget.cardId].exists
    /\ cards' = updatePlaylist(yotoTarget.cardId,
                    CommitList(plan, youtubeInfo.tracks, currentChapters,
                               uploadedTracks))
    /\ log' = Append(log, Call("updatePlaylist", yotoTarget.cardId))
    /\ pc' = "persist"
    /\ UNCHANGED <<playlists, tempDir, options, youtubeInfo, yotoTarget,
                   currentChapters, plan, i, downloadedTracks, uploadedTracks,
                   result, rejected>>
    /\ UNCHANGED <<uploadVars, workspaceVars, cardVars, authVars>>

\* updatePlaylist rejects and sync goes on to step 10.
UpdatePlaylistFailSwallowed ==
    /\ pc = "update"
    /\ log' = Append(log, Call("updatePlaylist", "throws"))
    /\ pc' = "persist"
    /\ UNCHANGED <<cards, playlists, tempDir, options, youtubeInfo, yotoTarget,
                   currentChapters, plan, i, downloadedTracks, uploadedTracks,
                   result, rejected>>
    /\ UNCHANGED <<uploadVars, workspaceVars, cardVars, authVars>>

\* Step 9: updatePlaylist rejects.
UpdatePlaylistFail ==
    /\ pc = "update"
    /\ log' = Append(log, Call("updatePlaylist", "throws"))
    /\ Throws("CommitFailed")
    /\ UNCHANGED <<cards, playlists, options, youtubeInfo, yotoTarget,
                   currentChapters, plan, i, downloadedTracks, uploadedTracks>>
    /\ UNCHANGED <<uploadVars, workspaceVars, cardVars, authVars>>

\* Step 10 writing the association only when none is stored yet.
SetAssociationOkKeepsEarlier ==
    /\ pc = "persist"
    /\ playlists' = IF playlists[youtubeInfo.id] # NoAssociation THEN playlists
                    ELSE setPlaylistAssociation(youtubeInfo.id,
                             [yotoId |-> yotoTarget.cardId,
                              yotoName |-> yotoTarget.title,
                              youtubeName |-> youtubeInfo.title,
                              lastSynced |-> "now"])
    /\ log' = log \o <<Call("setPlaylistAssociation", yotoTarget.cardId),
                       Call("open", yotoTarget.cardId)>>
    /\ Returns("Playlist updated!")
    /\ UNCHANGED <<cards, options, youtubeInfo, yotoTarget, currentChapters,
                   plan, i, downloadedTracks, uploadedTracks>>
    /\ UNCHANGED <<uploadVars, workspaceVars, cardVars, authVars>>

\* Step 10: the association is written and sync resolves.
SetAssociationOk ==
    /\ pc = "persist"
    /\ playlists' = setPlaylistAssociation(youtubeInfo.id,
                        [yotoId |-> yotoTarget.cardId,
                         yotoName |-> yotoTarget.title,
                         youtubeName |-> youtubeInfo.title,
                         lastSynced |-> "now"])
    /\ log' = log \o <<Call("setPlaylistAssociation", yotoTarget.cardId),
                       Call("open", yotoTarget.cardId)>>
    /\ Returns("Playlist updated!")
    /\ UNCHANGED <<cards, options, youtubeInfo, yotoTarget, currentChapters,
                   plan, i, downloadedTracks, uploadedTracks>>
    /\ UNCHANGED <<uploadVars, workspaceVars, cardVars, authVars>>

\* Step 10: writing playlists.json throws; nothing catches it.
SetAssociationFail ==
    /\ pc = "persist"
    /\ log' = Append(log, Call("setPlaylistAssociation", "throws"))
    /\ Throws("PersistFailed")
    /\ UNCHANGED <<cards, playlists, options, youtubeInfo, yotoTarget,
                   currentChapters, plan, i, downloadedTracks, uploadedTracks>>
    /\ UNCHANGED <<uploadVars, workspaceVars, cardVars, authVars>>

(***************************************************************************)
(* The sync command: what the process does with the outcome of sync        *)
(***************************************************************************)
\* The exit code with every rejection treated as an error.
ExitCodeNoCancelCheck == IF rejected THEN 1 ELSE 0

\* process.exit(0) for the "Sync cancelled" error, process.exit(1) for any
\* other, and the normal end of the process when sync resolves.
ExitCode ==
    IF rejected THEN (IF result = "Sync cancelled" THEN 0 ELSE 1) ELSE 0

\* console.error(`Error: ...`) in the catch block.
ErrorPrinted == rejected /\ result # "Sync cancelled"

Next ==
    \/ Start
    \/ GetPlaylistInfoOk
    \/ GetPlaylistInfoFail
    \/ ResolveListFail
    \/ ResolveNameDecline
    \/ ResolveNameCreate
    \/ ResolveNameOne
    \/ ResolveNameSelect
    \/ ResolveAssociation
    \/ ResolveSelectNew
    \/ ResolveSelectExisting
    \/ ResolveCreateFail
    \/ GetPlaylistFail
    \/ PlanAndPrint
    \/ ConfirmContinue
    \/ ConfirmDecline
    \/ DownloadTrackOk
    \/ DownloadTrackFail
    \/ UploadAudioOk
    \/ UploadAudioFail
    \/ UpdatePlaylistOk
    \/ UpdatePlaylistFail
    \/ SetAssociationOk
    \/ SetAssociationFail

Spec == Init /\ [][Next]_vars

(***************************************************************************)
(* ConfigSpec: playlists.json under a sequence of setPlaylistAssociation   *)
(***************************************************************************)
\* longest sequence of setPlaylistAssociation calls considered
MaxSets == 3

\* The associations a sync may write.
Associations ==
    {[yotoId |-> c, yotoName |-> IF c = "c1" THEN "a" ELSE "a2",
      youtubeName |-> "b", lastSynced |-> t] :
        c \in CardIds, t \in {"earlier", "now"}}

\* playlists.json does not exist: readPlaylists returns {}.
ConfigInit ==
    /\ playlists = [y \in PlaylistIds |-> NoAssociation]
    /\ log = <<>>
    /\ pc = "config"
    /\ cards = [c \in CardIds |-> NoCard]
    /\ tempDir = FALSE
    /\ options = [playlistName |-> ""]
    /\ youtubeInfo = NoInfo
    /\ yotoTarget = NoTarget
    /\ currentChapters = <<>>
    /\ plan = NoPlan
    /\ i = 0
    /\ downloadedTracks = {}
    /\ uploadedTracks = {}
    /\ result = ""
    /\ rejected = FALSE
    /\ update = NoUpdate
    /\ authFile = NoAuth
    /\ now = 1
    /\ outcome = NoOutcome
    /\ media = NoMedia
    /\ call = NoCall
    /\ runs = NoRuns
    /\ tempFiles = {}

\* One call of setPlaylistAssociation.
SetPlaylistAssociationStep ==
    /\ Len(log) < MaxSets
    /\ \E y \in PlaylistIds, association \in Associations :
           /\ playlists' = setPlaylistAssociation(y, association)
           /\ log' = Append(log, Call("setPlaylistAssociation",
                                      <<y, association>>))
    /\ UNCHANGED <<syncVars, uploadVars, workspaceVars, cardVars, authVars>>

ConfigNext == SetPlaylistAssociationStep

ConfigSpec == ConfigInit /\ [][ConfigNext]_vars

(***************************************************************************)
(* UploadSpec: uploadAudio, call after call, against the transcode store   *)
(***************************************************************************)
UploadInit ==
    /\ media = NoMedia
    /\ call = NoCall
    /\ pc = "uploadAudio"
    /\ cards = [c \in CardIds |-> NoCard]
    /\ playlists = [y \in PlaylistIds |-> NoAssociation]
    /\ tempDir = TRUE
    /\ options = [playlistName |-> ""]
    /\ youtubeInfo = NoInfo
    /\ yotoTarget = NoTarget
    /\ currentChapters = <<>>
    /\ plan = NoPlan
    /\ i = 0
    /\ downloadedTracks = {}
    /\ uploadedTracks = {}
    /\ log = <<>>
    /\ result = ""
    /\ rejected = FALSE
    /\ update = NoUpdate
    /\ authFile = NoAuth
    /\ now = 1
    /\ outcome = NoOutcome
    /\ runs = NoRuns
    /\ tempFiles = UploadFiles

\* What uploadAudio and the transcoder leave alone.
UploadFrame ==
    UNCHANGED <<syncVars, playlists, log, workspaceVars, cardVars, authVars>>

\* const sha256 = calculateFileSha256(filePath)
Sha == calculateFileSha256(call.filePath)

\* The transcoded hash the service computes for an uploaded hash.
TranscodedSha(h) ==
    AssetKey(CHOOSE f \in UploadFiles : calculateFileSha256(f) = h)

\* uploadAudio(filePath) is called, after the earlier call has ended.
UploadAudioBegin ==
    /\ call.pc \in {"idle", "returned", "threw"}
    /\ \E f \in UploadFiles :
           call' = [NoCall EXCEPT
                       !.pc = "check",
                       !.filePath = f,
                       !.earlier = IF call.pc = "returned"
                                   THEN [call.earlier EXCEPT
                                            ![call.filePath] = call.key]
                                   ELSE call.earlier]
    /\ UNCHANGED media
    /\ UploadFrame

\* The first status check finds a complete transcode, and uploadAudio goes
\* on to upload the file all the same.
FirstCheckCompleteIgnored ==
    /\ call.pc = "check"
    /\ IsComplete(media[Sha])
    /\ call' = [call EXCEPT !.firstCheck = "complete", !.pc = "getUploadUrl"]
    /\ UNCHANGED media
    /\ UploadFrame

\* The first status check finds a complete transcode: "File already
\* uploaded".
FirstCheckComplete ==
    /\ call.pc = "check"
    /\ IsComplete(media[Sha])
    /\ call' = [call EXCEPT !.firstCheck = "complete", !.pc = "returned",
                            !.key = media[Sha].transcodedSha256]
    /\ UNCHANGED media
    /\ UploadFrame

\* The first status check answers anything else.
FirstCheckOther ==
    /\ call.pc = "check"
    /\ ~IsComplete(media[Sha])
    /\ call' = [call EXCEPT !.firstCheck = "other", !.pc = "getUploadUrl"]
    /\ UNCHANGED media
    /\ UploadFrame

\* The first status check throws; the catch block swallows the error.
FirstCheckThrows ==
    /\ call.pc = "check"
    /\ call' = [call EXCEPT !.firstCheck = "throws", !.pc = "getUploadUrl"]
    /\ UNCHANGED media
    /\ UploadFrame

GetUploadUrlOk ==
    /\ call.pc = "getUploadUrl"
    /\ call' = [call EXCEPT !.urlRequests = @ + 1, !.pc = "put"]
    /\ UNCHANGED media
    /\ UploadFrame

\* getUploadUrl rejects, or the answer holds no upload URL.
GetUploadUrlFail ==
    /\ call.pc = "getUploadUrl"
    /\ call' = [call EXCEPT !.urlRequests = @ + 1, !.pc = "threw",
                            !.error = "No upload URL"]
    /\ UNCHANGED media
    /\ UploadFrame

\* The PUT of the file succeeds; the service starts to transcode content
\* it holds no complete transcode of.
PutOk ==
    /\ call.pc = "put"
    /\ call' = [call EXCEPT !.puts = @ + 1, !.pc = "poll", !.attempt = 0]
    /\ media' = IF IsComplete(media[Sha]) THEN media
                ELSE [media EXCEPT ![Sha] = [phase |-> "processing",
                                             transcodedSha256 |-> ""]]
    /\ UploadFrame

\* The PUT answers with an error status: "Upload failed".
PutFail ==
    /\ call.pc = "put"
    /\ call' = [call EXCEPT !.puts = @ + 1, !.pc = "threw",
                            !.error = "Upload failed"]
    /\ UNCHANGED media
    /\ UploadFrame

\* The service's transcoder: an upload in process completes (the hash may
\* follow the phase) or fails; a complete transcode stays as it is.
Transcode ==
    /\ \E h \in Shas :
           \/ /\ media[h].phase = "processing"
              /\ \E status \in {[phase |-> "complete", transcodedSha256 |-> ""],
                                 [phase |-> "complete",
                                  transcodedSha256 |-> TranscodedSha(h)],
                                 [phase |-> "failed", transcodedSha256 |-> ""]} :
                     media' = [media EXCEPT ![h] = status]
           \/ /\ media[h] = [phase |-> "complete", transcodedSha256 |-> ""]
              /\ media' = [media EXCEPT ![h].transcodedSha256 = TranscodedSha(h)]
    /\ UNCHANGED call
    /\ UploadFrame

\* A poll of the loop reports a complete transcode.
PollComplete ==
    /\ call.pc = "poll"
    /\ call.attempt < maxAttempts
    /\ IsComplete(media[Sha])
    /\ call' = [call EXCEPT !.polls = @ + 1, !.pc = "returned",
                            !.key = media[Sha].transcodedSha256]
    /\ UNCHANGED media
    /\ UploadFrame

\* A poll reports phase failed: "Audio transcode failed".
PollFailed ==
    /\ call.pc = "poll"
    /\ call.attempt < maxAttempts
    /\ media[Sha].phase = "failed"
    /\ call' = [call EXCEPT !.polls = @ + 1, !.pc = "threw",
                            !.error = "Audio transcode failed"]
    /\ UNCHANGED media
    /\ UploadFrame

\* The status request of a poll throws; nothing in the loop catches it.
PollThrows ==
    /\ call.pc = "poll"
    /\ call.attempt < maxAttempts
    /\ call' = [call EXCEPT !.polls = @ + 1, !.pc = "threw",
                            !.error = "Yoto API error"]
    /\ UNCHANGED media
    /\ UploadFrame

\* A poll reports neither: attempt++.
PollPending ==
    /\ call.pc = "poll"
    /\ call.attempt < maxAttempts
    /\ ~IsComplete(media[Sha])
    /\ media[Sha].phase # "failed"
    /\ call' = [call EXCEPT !.polls = @ + 1, !.attempt = @ + 1]
    /\ UNCHANGED media
    /\ UploadFrame

\* The loop ending with one more round of polls instead of the timeout.
PollTimeoutRetries ==
    /\ call.pc = "poll"
    /\ call.attempt = maxAttempts
    /\ call.polls = maxAttempts
    /\ call' = [call EXCEPT !.attempt = 0]
    /\ UNCHANGED media
    /\ UploadFrame

\* The loop ends: "Audio transcode timed out".
PollTimeout ==
    /\ call.pc = "poll"
    /\ call.attempt = maxAttempts
    /\ call' = [call EXCEPT !.pc = "threw",
                            !.error = "Audio transcode timed out"]
    /\ UNCHANGED media
    /\ UploadFrame

\* A step of the uploadAudio call under way.
UploadAudioStep ==
    \/ FirstCheckComplete
    \/ FirstCheckOther
    \/ FirstCheckThrows
    \/ GetUploadUrlOk
    \/ GetUploadUrlFail
    \/ PutOk
    \/ PutFail
    \/ PollComplete
    \/ PollFailed
    \/ PollThrows
    \/ PollPending
    \/ PollTimeout

UploadNext ==
    \/ UploadAudioBegin
    \/ FirstCheckComplete
    \/ FirstCheckOther
    \/ FirstCheckThrows
    \/ GetUploadUrlOk
    \/ GetUploadUrlFail
    \/ PutOk
    \/ PutFail
    \/ Transcode
    \/ PollComplete
    \/ PollFailed
    \/ PollThrows
    \/ PollPending
    \/ PollTimeout

UploadSpec == UploadInit /\ [][UploadNext]_vars

\* The call under way is never suspended for good: each of its awaits
\* settles.
UploadLiveSpec == UploadSpec /\ WF_vars(UploadAudioStep)

(***************************************************************************)
(* WorkspaceSpec: two invocations of sync that overlap, and the directory  *)
(* ~/Desktop/yoto-temp they both use                                       *)
(***************************************************************************)
\* The directory may exist before either run, holding a file of the owner.
WorkspaceInit ==
    /\ \E before \in BOOLEAN :
           /\ tempDir = before
           /\ tempFiles = IF before THEN {"notes.txt"} ELSE {}
    /\ runs = NoRuns
    /\ pc = "workspace"
    /\ cards = [c \in CardIds |-> NoCard]
    /\ playlists = [y \in PlaylistIds |-> NoAssociation]
    /\ options = [playlistName |-> ""]
    /\ youtubeInfo = NoInfo
    /\ yotoTarget = NoTarget
    /\ currentChapters = <<>>
    /\ plan = NoPlan
    /\ i = 0
    /\ downloadedTracks = {}
    /\ uploadedTracks = {}
    /\ log = <<>>
    /\ result = ""
    /\ rejected = FALSE
    /\ update = NoUpdate
    /\ authFile = NoAuth
    /\ now = 1
    /\ outcome = NoOutcome
    /\ media = NoMedia
    /\ call = NoCall

\* What a run leaves alone besides runs, tempDir and tempFiles.
WorkspaceFrame ==
    UNCHANGED <<cards, playlists, pc, options, youtubeInfo, yotoTarget,
                currentChapters, plan, i, downloadedTracks, uploadedTracks,
                log, result, rejected, uploadVars, cardVars, authVars>>

\* The finally block: rmSync(tempDir, {recursive: true, force: true}).
Cleanup ==
    /\ tempDir' = FALSE
    /\ tempFiles' = {}

\* The file the run is about to download or upload.
RunFile(r) == FilePath(runs[r].toAdd[runs[r].i])

\* mkdir(tempDir, {recursive: true}), then the steps up to the confirmed
\* plan, which leave the directory alone; toAdd: the tracks to add.
RunStart(r) ==
    /\ runs[r].pc = "idle"
    /\ \E toAdd \in TrackLists \ {<<>>} :
           runs' = [runs EXCEPT ![r] =
                       [NoRun EXCEPT !.pc = "fetch", !.toAdd = toAdd, !.i = 1,
                                     !.dirAtStart = tempDir]]
    /\ tempDir' = TRUE
    /\ UNCHANGED tempFiles
    /\ WorkspaceFrame

\* downloadTrack writes <track.id>.mp3 into the directory (yt-dlp makes the
\* directory when it is missing).
RunFetch(r) ==
    /\ runs[r].pc = "fetch"
    /\ tempDir' = TRUE
    /\ tempFiles' = tempFiles \cup {RunFile(r)}
    /\ runs' = [runs EXCEPT
                    ![r].fetched = @ \cup {RunFile(r)},
                    ![r].i = IF @ < Len(runs[r].toAdd) THEN @ + 1 ELSE 1,
                    ![r].pc = IF runs[r].i < Len(runs[r].toAdd)
                              THEN "fetch" ELSE "publish"]
    /\ WorkspaceFrame

\* uploadAudio reads the file and publishes it.
RunPublish(r) ==
    /\ runs[r].pc = "publish"
    /\ RunFile(r) \in tempFiles
    /\ runs' = [runs EXCEPT
                    ![r].fetched =
                        {FilePath(runs[r].toAdd[k]) :
                            k \in (runs[r].i + 1)..Len(runs[r].toAdd)},
                    ![r].i = IF @ < Len(runs[r].toAdd) THEN @ + 1 ELSE @,
                    ![r].pc = IF runs[r].i < Len(runs[r].toAdd)
                              THEN "publish" ELSE "commit"]
    /\ UNCHANGED <<tempDir, tempFiles>>
    /\ WorkspaceFrame

\* uploadAudio finds no file to read (ENOENT): the run throws.
RunPublishMissing(r) ==
    /\ runs[r].pc = "publish"
    /\ RunFile(r) \notin tempFiles
    /\ runs' = [runs EXCEPT ![r].pc = "done", ![r].error = "ENOENT"]
    /\ Cleanup
    /\ WorkspaceFrame

\* A download or an upload rejects: the run throws.
RunFail(r) ==
    /\ runs[r].pc \in {"fetch", "publish"}
    /\ runs' = [runs EXCEPT ![r].pc = "done", ![r].error = "failed"]
    /\ Cleanup
    /\ WorkspaceFrame

\* The commit and the association write, then the end of the run.
RunFinish(r) ==
    /\ runs[r].pc = "commit"
    /\ runs' = [runs EXCEPT ![r].pc = "done"]
    /\ Cleanup
    /\ WorkspaceFrame

WorkspaceNext ==
    \E r \in RunIds :
        \/ RunStart(r)
        \/ RunFetch(r)
        \/ RunPublish(r)
        \/ RunPublishMissing(r)
        \/ RunFail(r)
        \/ RunFinish(r)

WorkspaceSpec == WorkspaceInit /\ [][WorkspaceNext]_vars

(***************************************************************************)
(* CardSpec: updatePlaylist step by step, on cards the owner also edits    *)
(***************************************************************************)
\* The chapter lists a caller passes: what a card can hold, and the list
\* sync builds of a fresh chapter for track "b".
GivenLists ==
    SeedLists \cup {<<createChapter("b", AssetKey(FilePath(TrackOf("b"))), 1)>>}

\* updatePlaylist's updates argument: {title?, chapters?}
Updates ==
    [title : {<<>>, <<"b">>}, chapters : {<<>>} \cup {<<l>> : l \in GivenLists}]

\* The covers a card can have: createPlaylist's, and one the owner set.
Covers == {"bee_grapefruit.gif", "custom.png"}

\* Cards as the owner may have made them in the Yoto app.
OwnerCards(cardId) ==
    {[Card(cardId, "a", chapters)
          EXCEPT !.restricted = restricted, !.version = version,
                 !.metadata = [cover |-> cover]] :
        chapters \in SeedLists, restricted \in BOOLEAN,
        version \in {"1", "2"}, cover \in Covers}

CardInit ==
    /\ cards \in {[c \in CardIds |-> IF c = "c1" THEN card ELSE NoCard] :
                     card \in OwnerCards("c1")}
    /\ update = NoUpdate
    /\ pc = "card"
    /\ playlists = [y \in PlaylistIds |-> NoAssociation]
    /\ log = <<>>
    /\ tempDir = FALSE
    /\ options = [playlistName |-> ""]
    /\ youtubeInfo = NoInfo
    /\ yotoTarget = NoTarget
    /\ currentChapters = <<>>
    /\ plan = NoPlan
    /\ i = 0
    /\ downloadedTracks = {}
    /\ uploadedTracks = {}
    /\ result = ""
    /\ rejected = FALSE
    /\ authFile = NoAuth
    /\ now = 1
    /\ outcome = NoOutcome
    /\ media = NoMedia
    /\ call = NoCall
    /\ runs = NoRuns
    /\ tempFiles = {}

CardFrame ==
    UNCHANGED <<playlists, pc, tempDir, options, youtubeInfo, yotoTarget,
                currentChapters, plan, i, downloadedTracks, uploadedTracks,
                log, result, rejected, uploadVars, workspaceVars, authVars>>

\* A payload of createPlaylist's defaults in place of the fields read.
updatedCardFresh(existing, updates) ==
    Card(existing.cardId,
         IF updates.title = <<>> THEN existing.title ELSE updates.title[1],
         IF updates.chapters = <<>> THEN existing.chapters
                                    ELSE updates.chapters[1])

\* The payload updatePlaylist builds: cardId, activity, restricted, config,
\* version and metadata of the card read; title and chapters from updates
\* when given (??), else of the card read.
updatedCard(existing, updates) ==
    [exists |-> TRUE,
     cardId |-> existing.cardId,
     title |-> IF updates.title = <<>> THEN existing.title
                                       ELSE updates.title[1],
     chapters |-> IF updates.chapters = <<>> THEN existing.chapters
                                             ELSE updates.chapters[1],
     activity |-> existing.activity,
     restricted |-> existing.restricted,
     config |-> existing.config,
     version |-> existing.version,
     metadata |-> existing.metadata]

\* updatePlaylist(cardId, updates) is called.
UpdateBegin ==
    /\ update.pc \in {"idle", "returned", "threw"}
    /\ \E cardId \in CardIds, updates \in Updates :
           update' = [NoUpdate EXCEPT !.pc = "get", !.cardId = cardId,
                                      !.updates = updates]
    /\ UNCHANGED cards
    /\ CardFrame

\* getPlaylist(cardId) answers with the card as it is.
UpdateGetOk ==
    /\ update.pc = "get"
    /\ cards[update.cardId].exists
    /\ update' = [update EXCEPT !.pc = "post",
                                !.existing = cards[update.cardId]]
    /\ UNCHANGED cards
    /\ CardFrame

\* getPlaylist throws (no such card, or any non-2xx answer): nothing is
\* posted.
UpdateGetFail ==
    /\ update.pc = "get"
    /\ update' = [update EXCEPT !.pc = "threw"]
    /\ UNCHANGED cards
    /\ CardFrame

\* POST /content with the payload: the service stores it under its cardId.
UpdatePostOk ==
    /\ update.pc = "post"
    /\ cards[update.cardId].exists
    /\ LET posted == updatedCard(update.existing, update.updates)
       IN  /\ update' = [update EXCEPT !.pc = "returned", !.posted = posted]
           /\ cards' = [cards EXCEPT ![posted.cardId] = posted]
    /\ CardFrame

\* The POST is refused: the card stays as it is.
UpdatePostFail ==
    /\ update.pc = "post"
    /\ update' = [update EXCEPT !.pc = "threw"]
    /\ UNCHANGED cards
    /\ CardFrame

\* The owner renames a card or changes its cover in the Yoto app, at any
\* time, also between the GET and the POST of a call.
OwnerEdits ==
    /\ \E c \in CardIds, title \in {"a", "a2"}, cover \in Covers :
           /\ cards[c].exists
           /\ cards' = [cards EXCEPT ![c].title = title,
                                     ![c].metadata = [cover |-> cover]]
           /\ cards' # cards
    /\ UNCHANGED update
    /\ CardFrame

CardNext ==
    \/ UpdateBegin
    \/ UpdateGetOk
    \/ UpdateGetFail
    \/ UpdatePostOk
    \/ UpdatePostFail
    \/ OwnerEdits

CardSpec == CardInit /\ [][CardNext]_vars

(***************************************************************************)
(* AuthSpec: login, logout, status and authenticated requests over time    *)
(***************************************************************************)
\* How far the clock runs (seconds since the epoch, scaled down).
MaxTime == 3

Jwts == {"ey1", "ey2"}

\* What can be pasted at the prompt.  exp: the payload's exp claim as a
\* sequence of length 0 (absent) or 1.
TokenInputs ==
    [bearer : BOOLEAN, jwt : Jwts, wellFormed : BOOLEAN,
     exp : {<<>>} \cup {<<t>> : t \in 0 .. MaxTime + 1}]

\* The text pasted.
RawText(token) == (IF token.bearer THEN "Bearer " ELSE "") \o token.jwt

\* token.replace(/^Bearer\s+/i, "").trim()
StripBearer(token) == token.jwt

\* The auth records a file left by an earlier login can hold.
AuthRecords ==
    [exists : {TRUE}, accessToken : Jwts, expiresAt : 1 .. MaxTime + 1]

\* parseToken: decodeJwt throws on what is no JWT; an absent exp and exp 0
\* are both falsy.
parseToken(token) ==
    IF ~token.wellFormed
    THEN [threw |-> TRUE, message |-> "Invalid JWT", accessToken |-> "",
          expiresAt |-> 0]
    ELSE IF token.exp = <<>> \/ token.exp[1] = 0
    THEN [threw |-> TRUE, message |-> "Token missing expiration",
          accessToken |-> "", expiresAt |-> 0]
    ELSE [threw |-> FALSE, message |-> "",
          accessToken |-> StripBearer(token), expiresAt |-> token.exp[1]]

\* writeAuth, deleteAuth
writeAuth(accessToken, expiresAt) ==
    [exists |-> TRUE, accessToken |-> accessToken, expiresAt |-> expiresAt]

deleteAuth == NoAuth

\* login that takes a token expiring this very second.
loginInclusive(token, auth, t) ==
    LET parsed == parseToken(token)
    IN  IF parsed.threw
        THEN [threw |-> TRUE, message |-> parsed.message, auth |-> auth]
        ELSE IF parsed.expiresAt < t
        THEN [threw |-> TRUE, message |-> "Token is already expired",
              auth |-> auth]
        ELSE [threw |-> FALSE, message |-> "",
              auth |-> writeAuth(parsed.accessToken, parsed.expiresAt)]

\* login(token) with auth.json holding auth at time t: whether it throws,
\* and auth.json afterwards.
login(token, auth, t) ==
    LET parsed == parseToken(token)
    IN  IF parsed.threw
        THEN [threw |-> TRUE, message |-> parsed.message, auth |-> auth]
        ELSE IF parsed.expiresAt <= t
        THEN [threw |-> TRUE, message |-> "Token is already expired",
              auth |-> auth]
        ELSE [threw |-> FALSE, message |-> "",
              auth |-> writeAuth(parsed.accessToken, parsed.expiresAt)]

\* status() at time t
status(auth, t) ==
    IF ~auth.exists
    THEN [valid |-> FALSE, reason |-> "not_logged_in", expiresAt |-> 0]
    ELSE IF auth.expiresAt <= t
    THEN [valid |-> FALSE, reason |-> "expired", expiresAt |-> 0]
    ELSE [valid |-> TRUE, reason |-> "", expiresAt |-> auth.expiresAt]

\* getToken that still hands out a token in the second it expires.
getTokenInclusive(auth, t) ==
    IF ~auth.exists THEN <<>>
    ELSE IF auth.expiresAt < t THEN <<>>
    ELSE <<auth.accessToken>>

\* getToken() at time t: the token as a sequence of length 1, or <<>> for
\* null.
getToken(auth, t) ==
    IF ~auth.exists THEN <<>>
    ELSE IF auth.expiresAt <= t THEN <<>>
    ELSE <<auth.accessToken>>

\* requireAuth(): getToken reads the clock at t, status reads it again at
\* later.
requireAuth(auth, t, later) ==
    LET token == getToken(auth, t)
    IN  IF token = <<>> \/ token[1] = ""
        THEN LET authStatus == status(auth, later)
             IN  IF ~authStatus.valid /\ authStatus.reason = "expired"
                 THEN [threw |-> TRUE, token |-> "",
                       message |-> "Token expired. Please run: yoto login"]
                 ELSE [threw |-> TRUE, token |-> "",
                       message |-> "Not logged in. Please run: yoto login"]
        ELSE [threw |-> FALSE, token |-> token[1], message |-> ""]

AuthInit ==
    /\ authFile \in {NoAuth} \cup AuthRecords
    /\ now = 1
    /\ outcome = NoOutcome
    /\ pc = "auth"
    /\ cards = [c \in CardIds |-> NoCard]
    /\ update = NoUpdate
    /\ playlists = [y \in PlaylistIds |-> NoAssociation]
    /\ log = <<>>
    /\ tempDir = FALSE
    /\ options = [playlistName |-> ""]
    /\ youtubeInfo = NoInfo
    /\ yotoTarget = NoTarget
    /\ currentChapters = <<>>
    /\ plan = NoPlan
    /\ i = 0
    /\ downloadedTracks = {}
    /\ uploadedTracks = {}
    /\ result = ""
    /\ rejected = FALSE
    /\ media = NoMedia
    /\ call = NoCall
    /\ runs = NoRuns
    /\ tempFiles = {}

AuthFrame ==
    UNCHANGED <<syncVars, playlists, log, uploadVars, workspaceVars, cardVars>>

\* yoto login with a token pasted.
Login ==
    /\ \E token \in TokenInputs :
           LET done == login(token, authFile, now)
           IN  /\ authFile' = done.auth
               /\ outcome' = [cmd |-> "login", ok |-> ~done.threw,
                              value |-> done.message, sent |-> FALSE,
                              at |-> now, before |-> authFile,
                              token |-> token]
    /\ UNCHANGED now
    /\ AuthFrame

\* yoto logout
Logout ==
    /\ authFile' = deleteAuth
    /\ outcome' = [NoOutcome EXCEPT !.cmd = "logout", !.ok = TRUE,
                                    !.at = now, !.before = authFile]
    /\ UNCHANGED now
    /\ AuthFrame

\* yoto status
Status ==
    /\ LET tokenStatus == status(authFile, now)
       IN  outcome' = [NoOutcome EXCEPT
                           !.cmd = "status", !.ok = tokenStatus.valid,
                           !.value = IF tokenStatus.valid THEN "valid"
                                     ELSE tokenStatus.reason,
                           !.at = now, !.before = authFile]
    /\ UNCHANGED <<authFile, now>>
    /\ AuthFrame

\* authFetch: requireAuth first; the request leaves only when it returns a
\* token, and carries that token.
AuthFetch ==
    /\ \E later \in {t \in {now, now + 1} : t <= MaxTime} :
           LET required == requireAuth(authFile, now, later)
           IN  /\ outcome' = [NoOutcome EXCEPT
                                  !.cmd = "authFetch", !.ok = ~required.threw,
                                  !.value = IF required.threw
                                            THEN required.message
                                            ELSE required.token,
                                  !.sent = ~required.threw,
                                  !.at = now, !.before = authFile]
               /\ now' = later
    /\ UNCHANGED authFile
    /\ AuthFrame

\* A second passes.
Tick ==
    /\ now < MaxTime
    /\ now' = now + 1
    /\ UNCHANGED <<authFile, outcome>>
    /\ AuthFrame

AuthNext ==
    \/ Login
    \/ Logout
    \/ Status
    \/ AuthFetch
    \/ Tick

AuthSpec == AuthInit /\ [][AuthNext]_vars

(***************************************************************************)
(* Properties of the plan (PlanSpec)                                       *)
(***************************************************************************)
Planned == pc \in {"planned", "committed"}

ItemsOf(p, acts) == {k \in DOMAIN p.items : p.items[k].action \in acts}

\* The plan items that refer to chapter m / to track n.
RefsChapter(p, m) == {k \in DOMAIN p.items : p.items[k].yotoChapter = m}

RefsTrack(p, n) == {k \in DOMAIN p.items : p.items[k].youtubeTrack = n}

\* C1: every target chapter is referenced by exactly one plan item, a keep
\* or a remove, and every source track by exactly one plan item, a keep or
\* an add.
C1_Partition ==
    Planned =>
        /\ \A m \in DOMAIN currentChapters :
               /\ Cardinality(RefsChapter(plan, m)) = 1
               /\ RefsChapter(plan, m) \subseteq ItemsOf(plan, {"keep", "remove"})
        /\ \A n \in DOMAIN youtubeInfo.tracks :
               /\ Cardinality(RefsTrack(plan, n)) = 1
               /\ RefsTrack(plan, n) \subseteq ItemsOf(plan, {"keep", "add"})

\* C5: planning again with the same source against the chapter list that
\* was just committed finds nothing to add and nothing to remove.
C5_Idempotent ==
    pc = "committed" =>
        LET again == generateSyncPlan(youtubeInfo.tracks,
                                      cards[yotoTarget.cardId].chapters)
        IN again.toAdd = 0 /\ again.toRemove = 0

\* The keys consumed by the items before the n-th, and the chapters with an
\* unconsumed key that score below the threshold for the n-th track.
ConsumedBefore(n) ==
    {currentChapters[plan.items[j].yotoChapter].key :
        j \in {j \in 1..(n - 1) : plan.items[j].action = "keep"}}

UnconsumedMatches(n) ==
    {m \in DOMAIN currentChapters :
        /\ currentChapters[m].key \notin ConsumedBefore(n)
        /\ Score(youtubeInfo.tracks[n].title, currentChapters[m].title) < Threshold}

\* C6: a track is kept, paired with the best-scoring chapter among those
\* whose key is unconsumed and whose score is below the threshold, whenever
\* there is such a chapter, and added only when there is none.
C6_MatchesUnconsumed ==
    Planned =>
        \A n \in DOMAIN youtubeInfo.tracks :
            IF UnconsumedMatches(n) # {}
            THEN /\ plan.items[n].action = "keep"
                 /\ plan.items[n].yotoChapter \in UnconsumedMatches(n)
                 /\ \A m \in UnconsumedMatches(n) :
                        Score(youtubeInfo.tracks[n].title,
                              currentChapters[plan.items[n].yotoChapter].title)
                        <= Score(youtubeInfo.tracks[n].title,
                                 currentChapters[m].title)
            ELSE plan.items[n].action = "add"

\* C7: no two plan items reference the same target chapter key.
C7_KeyReferencedOnce ==
    Planned =>
        \A j, k \in DOMAIN plan.items :
            /\ j # k
            /\ plan.items[j].yotoChapter # 0
            /\ plan.items[k].yotoChapter # 0
            => currentChapters[plan.items[j].yotoChapter].key
               # currentChapters[plan.items[k].yotoChapter].key

\* C8: the three counts are the numbers of items of each action; keeps plus
\* adds is the number of source tracks; keeps plus removes is the number
\* of target chapters.
C8_Counts ==
    Planned =>
        /\ plan.toKeep = Cardinality(ItemsOf(plan, {"keep"}))
        /\ plan.toAdd = Cardinality(ItemsOf(plan, {"add"}))
        /\ plan.toRemove = Cardinality(ItemsOf(plan, {"remove"}))
        /\ plan.toKeep + plan.toAdd = Len(youtubeInfo.tracks)
        /\ plan.toKeep + plan.toRemove = Len(currentChapters)

\* C9: the keep and add items carry the positions 1..N, each once, the
\* item at position n references the n-th source track, and the items
\* stand in the plan in position order.
C9_OrderPreserved ==
    Planned =>
        LET N == Len(youtubeInfo.tracks)
            ka == ItemsOf(plan, {"keep", "add"})
        IN /\ Cardinality(ka) = N
           /\ \A n \in 1..N :
                  Cardinality({k \in ka : plan.items[k].position = n}) = 1
           /\ \A k \in ka :
                  /\ plan.items[k].position \in 1..N
                  /\ plan.items[k].youtubeTrack = plan.items[k].position
                  /\ plan.items[k].title
                     = youtubeInfo.tracks[plan.items[k].position].title
           /\ \A j, k \in ka :
                  j < k => plan.items[j].position < plan.items[k].position

\* A plan of two tracks, one kept and one added, the kept one second.
C9_Witness ==
    /\ pc = "planned"
    /\ Len(youtubeInfo.tracks) = 2
    /\ plan.items[1].action = "add"
    /\ plan.items[2].action = "keep"

\* C10: every remove item stands after every keep and add item, the remove
\* items are in the order of the target's chapters, and none of them has a
\* position in 1..N.
C10_RemovesLast ==
    Planned =>
        LET N == Len(youtubeInfo.tracks)
            rm == ItemsOf(plan, {"remove"})
        IN /\ \A j \in rm, k \in ItemsOf(plan, {"keep", "add"}) : k < j
           /\ \A j, k \in rm :
                  j < k => plan.items[j].yotoChapter < plan.items[k].yotoChapter
           /\ \A j \in rm : plan.items[j].position \notin 1..N

\* A plan that adds a track and removes two chapters.
C10_Witness ==
    /\ pc = "planned"
    /\ plan.toAdd > 0
    /\ plan.toRemove = 2

(***************************************************************************)
(* Properties of an invocation (Spec)                                      *)
(***************************************************************************)
Called(name) == {k \in DOMAIN log : log[k][1] = name}

Logged(entry) == {k \in DOMAIN log : log[k] = entry}

\* C2: every chapter the card held before the commit that is absent from
\* the written list was a remove item of the confirmed plan.
C2_NoSilentDrop ==
    pc = "persist" =>
        LET written == cards[yotoTarget.cardId].chapters
        IN \A m \in DOMAIN currentChapters :
               (\A k \in DOMAIN written : written[k] # currentChapters[m])
               => \E j \in ItemsOf(plan, {"remove"}) :
                      plan.items[j].yotoChapter = m

\* C3: the chapter list is written only after the plan was printed and
\* "Continue with sync?" was then answered yes; once it is answered no the
\* run is over and has fetched, published and written nothing.
C3_WriteOnlyAfterConfirm ==
    /\ \A w \in Called("updatePlaylist") :
           \E q \in Called("printSyncPlan"),
              c \in Logged(Call("confirm:continue", "yes")) :
               q < c /\ c < w
    /\ Logged(Call("confirm:continue", "no")) # {} =>
           /\ pc = "done"
           /\ result = "Sync cancelled"
           /\ ~tempDir
           /\ Called("downloadTrack") = {}
           /\ Called("uploadAudio") = {}
           /\ Called("updatePlaylist") = {}
           /\ Called("setPlaylistAssociation") = {}

\* The operator declined a plan that had tracks to add and to remove.
C3_Witness ==
    /\ Logged(Call("confirm:continue", "no")) # {}
    /\ plan.toAdd > 0
    /\ plan.toRemove > 0

\* C4: no card is created, no chapter list written and no association
\* written before the plan has been printed, so a cancelled run has created
\* no card.
C4_NoChangeBeforePlan ==
    /\ \A k \in Called("createPlaylist") \cup Called("updatePlaylist")
                \cup Called("setPlaylistAssociation") :
           \E q \in Called("printSyncPlan") : q < k
    /\ result = "Sync cancelled" => Called("createPlaylist") = {}

\* The chapter list the target card holds, and the stored association.
Written == cards[yotoTarget.cardId].chapters

Stored == playlists[youtubeInfo.id]

\* No download, upload, chapter-list write or association write so far.
NothingPublished ==
    /\ Called("uploadAudio") = {}
    /\ Called("updatePlaylist") = {}
    /\ Called("setPlaylistAssociation") = {}

\* C11: whenever sync has returned or thrown, the temporary workspace is
\* gone.
C11_WorkspaceRemoved ==
    pc = "done" => ~tempDir

\* The workspace was created and sync then threw at the commit.
C11_Witness ==
    /\ pc = "done"
    /\ Called("mkdir") # {}
    /\ rejected
    /\ result = "CommitFailed"

\* C12: once a download has failed it is the last call of the run: the run
\* ended rejecting with that failure, the failing item being the i-th when
\* i - 1 downloads succeeded; nothing was uploaded or written, and the
\* workspace is removed.
C12_FetchAllOrNothing ==
    Logged(Call("downloadTrack", "throws")) # {} =>
        /\ Logged(Call("downloadTrack", "throws")) = {Len(log)}
        /\ pc = "done"
        /\ rejected
        /\ result = "FetchFailed"
        /\ ~tempDir
        /\ Cardinality(Called("downloadTrack")) = i
        /\ NothingPublished
        /\ Written = currentChapters
        /\ Stored.lastSynced # "now"

\* The second of two downloads failed.
C12_Witness ==
    /\ Logged(Call("downloadTrack", "throws")) # {}
    /\ Len(tracksToAdd) = 2
    /\ i = 2

\* C13: once an upload has failed the run is over: the chapter list was not
\* written and is the one read at planning time, and the association was
\* not written.
C13_PublishFailureNoCommit ==
    Logged(Call("uploadAudio", "throws")) # {} =>
        /\ pc = "done"
        /\ rejected
        /\ result = "PublishFailed"
        /\ Called("updatePlaylist") = {}
        /\ Called("setPlaylistAssociation") = {}
        /\ Written = currentChapters
        /\ Stored.lastSynced # "now"

\* The second upload failed after the first one succeeded.
C13_Witness ==
    /\ Logged(Call("uploadAudio", "throws")) # {}
    /\ Cardinality(Called("uploadAudio")) = 2

\* C14: the association is written only after updatePlaylist returned in
\* the same run; when updatePlaylist fails the run is over and the stored
\* association is not one written by this run.
C14_AssociationAfterCommit ==
    /\ \A w \in Called("setPlaylistAssociation") :
           \E u \in Logged(Call("updatePlaylist", yotoTarget.cardId)) : u < w
    /\ \A y \in PlaylistIds :
           playlists[y].lastSynced = "now" =>
               Logged(Call("updatePlaylist", yotoTarget.cardId)) # {}
    /\ Logged(Call("updatePlaylist", "throws")) # {} =>
           /\ pc = "done"
           /\ result = "CommitFailed"
           /\ Called("setPlaylistAssociation") = {}
           /\ Stored.lastSynced # "now"

\* The commit failed in a run that started with a saved association.
C14_Witness ==
    /\ Logged(Call("updatePlaylist", "throws")) # {}
    /\ Stored.lastSynced = "earlier"

\* C15: when the association write fails after a successful commit, sync
\* does not reject and the committed chapter list stays.
C15_PersistFailureLogged ==
    Logged(Call("setPlaylistAssociation", "throws")) # {} =>
        /\ ~rejected
        /\ Written = CommitList(plan, youtubeInfo.tracks, currentChapters,
                                uploadedTracks)

\* C16: a printed plan with nothing to add and nothing to remove ends the
\* run at once, successfully, with no confirmation asked and nothing
\* fetched, published or written.
C16_InSyncShortCircuit ==
    (Called("printSyncPlan") # {} /\ plan.toAdd = 0 /\ plan.toRemove = 0) =>
        /\ pc = "done"
        /\ ~rejected
        /\ result = "Playlist is already in sync!"
        /\ ~tempDir
        /\ Called("confirm:continue") = {}
        /\ Called("downloadTrack") = {}
        /\ NothingPublished
        /\ Written = currentChapters
        /\ Stored.lastSynced # "now"

\* A run that found the playlist in sync, with an earlier association.
C16_Witness ==
    /\ result = "Playlist is already in sync!"
    /\ Stored.lastSynced = "earlier"

\* C17: the written chapter list has one entry per source track, in source
\* order: the kept chapter of a keep item, a chapter with the track's title
\* and the asset of the track's downloaded file for an add item; no entry
\* is taken from a chapter that a remove item refers to.
C17_WrittenList ==
    pc = "persist" =>
        /\ Len(Written) = Len(youtubeInfo.tracks)
        /\ \A n \in DOMAIN youtubeInfo.tracks :
               IF plan.items[n].action = "keep"
               THEN Written[n] = currentChapters[plan.items[n].yotoChapter]
               ELSE /\ plan.items[n].action = "add"
                    /\ Written[n].title = youtubeInfo.tracks[n].title
                    /\ Written[n].trackUrl
                       = "yoto:#" \o AssetKey(FilePath(youtubeInfo.tracks[n]))
        /\ \A j \in ItemsOf(plan, {"remove"}), n \in ItemsOf(plan, {"keep"}) :
               plan.items[j].yotoChapter # plan.items[n].yotoChapter

\* A commit of a plan that adds the first track, keeps the second and
\* removes a chapter.
C17_Witness ==
    /\ pc = "persist"
    /\ Len(plan.items) = 3
    /\ plan.items[1].action = "add"
    /\ plan.items[2].action = "keep"
    /\ plan.items[3].action = "remove"

\* C18: every kept chapter is in the written list with the key, title,
\* track and icon it had when read at planning time.
C18_KeptUnchanged ==
    pc = "persist" =>
        \A n \in ItemsOf(plan, {"keep"}) :
            LET old == currentChapters[plan.items[n].yotoChapter]
            IN \E k \in DOMAIN Written :
                   /\ Written[k].key = old.key
                   /\ Written[k].title = old.title
                   /\ Written[k].trackUrl = old.trackUrl
                   /\ Written[k].icon = old.icon

\* A kept chapter with an icon whose title differs from the source title.
C18_Witness ==
    /\ pc = "persist"
    /\ plan.toAdd > 0
    /\ \E n \in ItemsOf(plan, {"keep"}) :
           /\ currentChapters[plan.items[n].yotoChapter].icon = "star"
           /\ currentChapters[plan.items[n].yotoChapter].title
              # plan.items[n].title

\* C19: a confirmed plan with removals and no additions downloads and
\* uploads nothing, still writes the chapter list, made of the kept
\* chapters in source order, and a successful run has then written the
\* association.
C19_RemovalOnly ==
    (/\ plan.toAdd = 0
     /\ plan.toRemove > 0
     /\ Logged(Call("confirm:continue", "yes")) # {}) =>
        /\ Called("downloadTrack") = {}
        /\ Called("uploadAudio") = {}
        /\ pc \in {"update", "persist", "done"}
        /\ pc = "persist" =>
               /\ Logged(Call("updatePlaylist", yotoTarget.cardId)) # {}
               /\ Written = [n \in DOMAIN youtubeInfo.tracks |->
                                currentChapters[plan.items[n].yotoChapter]]
        /\ (pc = "done" /\ ~rejected) =>
               /\ Logged(Call("updatePlaylist", yotoTarget.cardId)) # {}
               /\ Logged(Call("setPlaylistAssociation", yotoTarget.cardId)) # {}
               /\ Stored.yotoId = yotoTarget.cardId
               /\ Stored.lastSynced = "now"

\* A removal-only run that ended in success.
C19_Witness ==
    /\ pc = "done"
    /\ ~rejected
    /\ plan.toAdd = 0
    /\ plan.toRemove > 0
    /\ Logged(Call("confirm:continue", "yes")) # {}

\* C20: a run the operator cancelled, in the resolver or at the
\* confirmation, ends with exit code 0 and no error printed.
C20_CancelIsNotAnError ==
    (/\ pc = "done"
     /\ \/ Logged(Call("confirm:create", "no")) # {}
        \/ Logged(Call("confirm:continue", "no")) # {}) =>
        /\ ExitCode = 0
        /\ ~ErrorPrinted

\* The operator declined to create a card in the resolver: sync threw.
C20_Witness ==
    /\ pc = "done"
    /\ rejected
    /\ Logged(Call("confirm:create", "no")) # {}

(***************************************************************************)
(* The matcher's threshold and the planner's edge cases (PlanSpec)         *)
(***************************************************************************)
\* The best (lowest) score any chapter has for the n-th track; above every
\* score when there is no chapter.
BestScore(n) ==
    IF Len(currentChapters) = 0 THEN 101
    ELSE LET m == CHOOSE m \in DOMAIN currentChapters :
                      \A j \in DOMAIN currentChapters :
                          Score(youtubeInfo.tracks[n].title, currentChapters[m].title)
                          <= Score(youtubeInfo.tracks[n].title, currentChapters[j].title)
         IN Score(youtubeInfo.tracks[n].title, currentChapters[m].title)

\* C21: a track is kept only with a chapter whose score is strictly below
\* the threshold; a track whose best score is exactly the threshold or
\* above it, or that meets an empty chapter list, is an add item.
C21_ThresholdStrict ==
    Planned =>
        \A n \in DOMAIN youtubeInfo.tracks :
            /\ plan.items[n].action = "keep" =>
                   Score(youtubeInfo.tracks[n].title,
                         currentChapters[plan.items[n].yotoChapter].title)
                   < Threshold
            /\ BestScore(n) >= Threshold =>
                   /\ plan.items[n].action = "add"
                   /\ plan.items[n].yotoChapter = 0

\* A track whose best chapter scores exactly the threshold was planned.
C21_Witness ==
    /\ pc = "planned"
    /\ \E n \in DOMAIN youtubeInfo.tracks :
           /\ BestScore(n) = Threshold
           /\ plan.items[n].action = "add"

\* C22: against an empty chapter list the plan is one add item per track,
\* at positions 1..N; for an empty source it is one remove item per
\* chapter; for one track and one chapter that do not match it is the add
\* at position 1 followed by the remove of that chapter.
C22_PlannerEdgeCases ==
    Planned =>
        LET N == Len(youtubeInfo.tracks)
            M == Len(currentChapters)
        IN /\ M = 0 =>
                  /\ Len(plan.items) = N
                  /\ \A n \in 1..N :
                         /\ plan.items[n].action = "add"
                         /\ plan.items[n].position = n
                         /\ plan.items[n].youtubeTrack = n
                  /\ plan.toAdd = N /\ plan.toKeep = 0 /\ plan.toRemove = 0
           /\ N = 0 =>
                  /\ Len(plan.items) = M
                  /\ \A m \in 1..M :
                         /\ plan.items[m].action = "remove"
                         /\ plan.items[m].yotoChapter = m
                  /\ plan.toRemove = M /\ plan.toKeep = 0 /\ plan.toAdd = 0
           /\ (N = 1 /\ M = 1 /\ BestScore(1) >= Threshold) =>
                  /\ Len(plan.items) = 2
                  /\ plan.items[1].action = "add"
                  /\ plan.items[1].position = 1
                  /\ plan.items[1].youtubeTrack = 1
                  /\ plan.items[2].action = "remove"
                  /\ plan.items[2].yotoChapter = 1

\* One track was planned against one chapter that does not match it.
C22_Witness ==
    /\ pc = "planned"
    /\ Len(youtubeInfo.tracks) = 1
    /\ Len(currentChapters) = 1
    /\ BestScore(1) >= Threshold
    /\ plan.toAdd = 1
    /\ plan.toRemove = 1

\* An empty source was planned against a card that holds chapters.
C22_WitnessEmptySource ==
    /\ pc = "planned"
    /\ Len(youtubeInfo.tracks) = 0
    /\ plan.toRemove > 0

\* Tracks were planned against a card that holds no chapter.
C22_WitnessEmptyTarget ==
    /\ pc = "planned"
    /\ Len(currentChapters) = 0
    /\ plan.toAdd = 2

(***************************************************************************)
(* Properties of the target resolution (Spec)                              *)
(***************************************************************************)
\* resolveYotoPlaylist has returned and the run has not ended.
ResolverReturned ==
    pc \in {"getPlaylist", "confirm", "download", "upload", "update", "persist"}

\* The cards the resolver listed: the existing ones without the card it
\* created itself.
ListedBefore ==
    SelectSeq(listPlaylists,
              LAMBDA p : ~(yotoTarget.isNew /\ p.cardId = yotoTarget.cardId))

TargetOf(p) == [cardId |-> p.cardId, title |-> p.title, isNew |-> FALSE]

\* C23: with --playlist the resolver neither reads the saved association
\* nor shows the fallback selection; it creates a card only when the name
\* matched none; with one match it returns that card without any prompt,
\* and with several the card the operator selected among the matches.
C23_NameDecidesAlone ==
    (ResolverReturned /\ options.playlistName # "") =>
        LET matches == fuzzyMatchPlaylist(options.playlistName, ListedBefore)
        IN /\ Called("getPlaylistAssociation") = {}
           /\ Called("confirm:use") = {}
           /\ Called("select:choices") = {}
           /\ Called("select") = {}
           /\ yotoTarget.isNew <=> Len(matches) = 0
           /\ Len(matches) = 1 =>
                  /\ yotoTarget = TargetOf(matches[1])
                  /\ Called("confirm:create") = {}
                  /\ Called("input") = {}
                  /\ Called("select:match") = {}
           /\ Len(matches) > 1 =>
                  /\ Cardinality(Called("select:match")) = 1
                  /\ \E k \in DOMAIN matches :
                         /\ yotoTarget = TargetOf(matches[k])
                         /\ Logged(Call("select:match", matches[k].cardId)) # {}

\* --playlist matched two cards, an association for another card was
\* saved, and the operator selected the second match.
C23_Witness ==
    /\ pc = "getPlaylist"
    /\ options.playlistName = "a"
    /\ playlists[youtubeInfo.id].yotoId = "c1"
    /\ Logged(Call("select:match", "c2")) # {}
    /\ yotoTarget.cardId = "c2"

\* --playlist matched exactly one card, which was returned.
C23_WitnessOne ==
    /\ pc = "getPlaylist"
    /\ options.playlistName = "b"
    /\ playlists[youtubeInfo.id] # NoAssociation
    /\ yotoTarget.cardId = "c2"
    /\ ~yotoTarget.isNew

\* C24: once the operator has declined to create a card for an unmatched
\* --playlist name, sync has thrown "Sync cancelled" with the workspace
\* removed, and it has created no card, read no chapter list, generated no
\* plan, and fetched, published, committed and persisted nothing; the step
\* itself changes neither the cards nor playlists.json.
C24_DeclineCreateAborts ==
    /\ [](Logged(Call("confirm:create", "no")) # {} =>
             /\ pc = "done"
             /\ rejected
             /\ result = "Sync cancelled"
             /\ ~tempDir
             /\ yotoTarget = NoTarget
             /\ plan = NoPlan
             /\ Called("createPlaylist") = {}
             /\ Called("getPlaylist") = {}
             /\ Called("printSyncPlan") = {}
             /\ Called("downloadTrack") = {}
             /\ NothingPublished)
    /\ [][Logged(Call("confirm:create", "no"))' # {} =>
               /\ cards' = cards
               /\ playlists' = playlists]_vars

\* The operator declined although a card could have been created.
C24_Witness ==
    /\ Logged(Call("confirm:create", "no")) # {}
    /\ options.playlistName = "b"
    /\ FreeCards # {}
    /\ pc = "done"

\* C25: without --playlist, "Use this playlist?" is asked exactly when an
\* association is saved for the playlist; accepting returns the associated
\* card, not new, with no further prompt; otherwise the fallback selection
\* is shown, offering "new" and every existing card.
C25_RememberedAssociation ==
    (ResolverReturned /\ options.playlistName = "") =>
        LET association == playlists[youtubeInfo.id]
            offered == <<"new">> \o
                       [k \in DOMAIN ListedBefore |-> ListedBefore[k].cardId]
        IN /\ Cardinality(Called("confirm:use"))
              = (IF association = NoAssociation THEN 0 ELSE 1)
           /\ Logged(Call("confirm:use", "yes")) # {} =>
                  /\ yotoTarget = [cardId |-> association.yotoId,
                                   title |-> association.yotoName,
                                   isNew |-> FALSE]
                  /\ Called("select:choices") = {}
                  /\ Called("select") = {}
                  /\ Called("input") = {}
                  /\ Called("createPlaylist") = {}
           /\ Logged(Call("confirm:use", "yes")) = {} =>
                  /\ Logged(Call("select:choices", ChoiceList(offered))) # {}
                  /\ \A c \in Called("confirm:use"), q \in Called("select:choices") :
                         c < q
                  /\ \E q \in Called("select:choices"), a \in Called("select") :
                         q < a

\* The operator declined the saved association and picked another of the
\* two existing cards in the fallback selection.
C25_Witness ==
    /\ pc = "getPlaylist"
    /\ options.playlistName = ""
    /\ playlists[youtubeInfo.id].yotoId = "c1"
    /\ Logged(Call("confirm:use", "no")) # {}
    /\ Logged(Call("select:choices", "new,c1,c2,")) # {}
    /\ yotoTarget.cardId = "c2"

\* The operator accepted the saved association.
C25_WitnessAccept ==
    /\ pc = "getPlaylist"
    /\ Logged(Call("confirm:use", "yes")) # {}
    /\ yotoTarget.cardId = playlists[youtubeInfo.id].yotoId

(***************************************************************************)
(* Order of the calls within a run (Spec)                                  *)
(***************************************************************************)
\* The calls of one function, in the order they were made.
CallsOf(name) == SelectSeq(log, LAMBDA e : e[1] = name)

\* The calls of one function made before log entry k that did not throw.
DoneBefore(name, k) ==
    {j \in Called(name) : j < k /\ log[j][2] # "throws"}

\* C28: the k-th downloadTrack call is for the k-th add item of the plan,
\* and so is the k-th uploadAudio call; only the last call of either kind
\* may have failed; every uploadAudio call comes after a successful
\* download of every add item, and every updatePlaylist call after a
\* successful upload of every add item.
C28_SequentialInOrder ==
    LET adds == Len(tracksToAdd)
        id(k) == youtubeInfo.tracks[tracksToAdd[k].youtubeTrack].id
        InOrder(calls) ==
            /\ Len(calls) <= adds
            /\ \A k \in DOMAIN calls :
                   \/ calls[k][2] = id(k)
                   \/ k = Len(calls) /\ calls[k][2] = "throws"
    IN /\ InOrder(CallsOf("downloadTrack"))
       /\ InOrder(CallsOf("uploadAudio"))
       /\ \A u \in Called("uploadAudio") :
              Cardinality(DoneBefore("downloadTrack", u)) = adds
       /\ \A w \in Called("updatePlaylist") :
              /\ Cardinality(DoneBefore("downloadTrack", w)) = adds
              /\ Cardinality(DoneBefore("uploadAudio", w)) = adds

\* Two different tracks were fetched, then published, and the list written.
C28_Witness ==
    /\ pc = "persist"
    /\ Len(tracksToAdd) = 2
    /\ tracksToAdd[1].title # tracksToAdd[2].title
    /\ Len(CallsOf("uploadAudio")) = 2

(***************************************************************************)
(* Properties of playlists.json (ConfigSpec)                               *)
(***************************************************************************)
\* The setPlaylistAssociation calls made for playlist id y.
SetsOf(y) ==
    {k \in DOMAIN log : log[k][1] = "setPlaylistAssociation" /\ log[k][2][1] = y}

\* C29: for every playlist id, getPlaylistAssociation returns the
\* association of the last setPlaylistAssociation call made for that id,
\* whatever was set for other ids since, and none when no call was made
\* for it.
C29_Upsert ==
    \A y \in PlaylistIds :
        IF SetsOf(y) = {}
        THEN getPlaylistAssociation(y) = NoAssociation
        ELSE LET last == CHOOSE k \in SetsOf(y) : \A j \in SetsOf(y) : j <= k
             IN getPlaylistAssociation(y) = log[last][2][2]

\* An id was set twice, with different associations, and the other id was
\* set in between.
C29_Witness ==
    /\ Len(log) = 3
    /\ log[1][2][1] = "PL1"
    /\ log[2][2][1] = "PL2"
    /\ log[3][2][1] = "PL1"
    /\ log[1][2][2] # log[3][2][2]

(***************************************************************************)
(* Properties of uploadAudio (UploadSpec, UploadLiveSpec)                  *)
(***************************************************************************)
CallEnded == call.pc \in {"returned", "threw"}

\* C26: a call of uploadAudio polls at most maxAttempts times; a call that
\* returned after polling returned the transcoded hash of a complete
\* status; a step of the loop taken on a complete status ends the call;
\* "Audio transcode failed" is thrown on a failed status and "Audio
\* transcode timed out" after exactly maxAttempts polls; and a call that
\* polls always comes to its end.
C26_BoundedPolling ==
    /\ [](/\ call.polls <= maxAttempts
          /\ call.attempt <= maxAttempts
          /\ (call.pc = "returned" /\ call.polls > 0) =>
                 /\ IsComplete(media[Sha])
                 /\ call.key = media[Sha].transcodedSha256
          /\ call.error = "Audio transcode failed" =>
                 media[Sha].phase = "failed"
          /\ call.error = "Audio transcode timed out" =>
                 call.polls = maxAttempts)
    /\ [][(call.pc = "poll" /\ call.attempt < maxAttempts /\ call' # call) =>
              IF IsComplete(media[Sha]) \/ media[Sha].phase = "failed"
              THEN call'.pc \in {"returned", "threw"}
              ELSE call'.polls = call.polls + 1]_vars
    /\ (call.pc = "poll") ~> CallEnded

\* A call polled maxAttempts times and then timed out.
C26_Witness ==
    /\ call.pc = "threw"
    /\ call.error = "Audio transcode timed out"
    /\ call.polls = maxAttempts

\* C27: a call whose first status check reported a complete transcode has
\* returned its transcoded hash without asking for an upload URL, without
\* a PUT and without a poll; and a call on a file for which an earlier
\* call returned a key returns that same key.
C27_Dedup ==
    /\ call.firstCheck = "complete" =>
           /\ call.pc = "returned"
           /\ call.key = media[Sha].transcodedSha256
           /\ call.urlRequests = 0
           /\ call.puts = 0
           /\ call.polls = 0
    /\ (call.pc = "returned" /\ call.earlier[call.filePath] # "") =>
           call.key = call.earlier[call.filePath]

\* A second call on a published file returned from its first check.
C27_Witness ==
    /\ call.pc = "returned"
    /\ call.firstCheck = "complete"
    /\ call.earlier[call.filePath] # ""

(***************************************************************************)
(* Properties of the workspace (WorkspaceSpec)                             *)
(***************************************************************************)
\* C30: the files a run has fetched and not yet published are in the
\* directory as long as that run is fetching or publishing, whatever the
\* other run does; and the end of a run that found the directory in place
\* when it started leaves the directory in place.
C30_WorkspaceExclusive ==
    /\ [](\A r \in RunIds :
              runs[r].pc \in {"fetch", "publish"} =>
                  runs[r].fetched \subseteq tempFiles)
    /\ [][\A r \in RunIds :
              (runs[r].pc # "done" /\ runs'[r].pc = "done"
               /\ runs[r].dirAtStart) =>
                  tempDir' = tempDir]_vars

(***************************************************************************)
(* Properties of the commit and of the stored association (Spec)           *)
(***************************************************************************)
\* The updatePlaylist calls of the run that did not throw.
Commits == {k \in Called("updatePlaylist") : log[k][2] # "throws"}

\* The complete list of the plan: for the n-th source track the kept
\* chapter, or the chapter created for the track's published file.
PlannedList ==
    [n \in DOMAIN youtubeInfo.tracks |->
        IF plan.items[n].action = "keep"
        THEN currentChapters[plan.items[n].yotoChapter]
        ELSE createChapter(youtubeInfo.tracks[n].title,
                           AssetKey(FilePath(youtubeInfo.tracks[n])), n)]

\* C31: when sync has succeeded after a commit, the association read back
\* for the source playlist names the card the chapter list was written
\* to, with the card's title as resolved, the source playlist's title and
\* the time of this run.
C31_AssociationUpserted ==
    (pc = "done" /\ ~rejected /\ Commits # {}) =>
        /\ result = "Playlist updated!"
        /\ \A k \in Commits : log[k][2] = yotoTarget.cardId
        /\ getPlaylistAssociation(youtubeInfo.id) =
               [yotoId |-> yotoTarget.cardId,
                yotoName |-> yotoTarget.title,
                youtubeName |-> youtubeInfo.title,
                lastSynced |-> "now"]

\* An association with card c1 was stored, the operator declined it,
\* picked card c2, and the run committed and succeeded.
C31_Witness ==
    /\ pc = "done"
    /\ ~rejected
    /\ Commits # {}
    /\ Logged(Call("confirm:use", "no")) # {}
    /\ yotoTarget.cardId = "c2"
    /\ playlists[youtubeInfo.id].yotoId = "c2"

\* C32: a run calls updatePlaylist at most once; from the time the
\* chapters were read on, the target card holds the list read at planning
\* time as long as no write succeeded, and the complete planned list once
\* one has.
C32_SingleFullWrite ==
    /\ Cardinality(Called("updatePlaylist")) <= 1
    /\ Called("printSyncPlan") # {} =>
           cards[yotoTarget.cardId].chapters
           = (IF Commits = {} THEN currentChapters ELSE PlannedList)

\* A list of two chapters, one kept and one new, was written.
C32_Witness ==
    /\ Commits # {}
    /\ plan.toKeep = 1
    /\ plan.toAdd = 1
    /\ Len(cards[yotoTarget.cardId].chapters) = 2

\* C34: the card resolveYotoPlaylist returned exists on the service: it
\* was listed by this resolution or created by it.
C34_ResolvedExists ==
    ResolverReturned =>
        /\ cards[yotoTarget.cardId].exists
        /\ \/ yotoTarget.isNew /\ Logged(Call("createPlaylist", yotoTarget.cardId)) # {}
           \/ \E k \in DOMAIN ListedBefore :
                  ListedBefore[k].cardId = yotoTarget.cardId

(***************************************************************************)
(* Chapter keys of a committed list (PlanSpec)                             *)
(***************************************************************************)
DistinctKeys(chapters) ==
    \A j, k \in DOMAIN chapters : j # k => chapters[j].key # chapters[k].key

\* C33: a commit onto a chapter list with pairwise distinct keys writes a
\* chapter list with pairwise distinct keys.
C33_WrittenKeysDistinct ==
    (pc = "committed" /\ DistinctKeys(currentChapters)) =>
        DistinctKeys(cards[yotoTarget.cardId].chapters)

(***************************************************************************)
(* Properties of updatePlaylist (CardSpec)                                 *)
(***************************************************************************)
\* The call under way was given a chapter list and no title.
ChaptersOnly ==
    /\ update.updates.title = <<>>
    /\ update.updates.chapters # <<>>

\* C35: updatePlaylist called with only a chapter list changes nothing but
\* the chapters.  The card it reads is the card as the service holds it at
\* the GET; the card it posts has that card's cardId, title, metadata,
\* activity, restricted flag, config and version, and exactly the chapter list
\* given; the POST stores that card under the id asked for and touches no
\* other card, so that a card nobody edited since the GET differs from what it
\* was in its chapters only.
C35_ChaptersOnlyFrame ==
    /\ [](update.pc = "returned" /\ ChaptersOnly =>
            /\ update.posted.exists
            /\ update.posted.cardId = update.cardId
            /\ update.posted.cardId = update.existing.cardId
            /\ update.posted.title = update.existing.title
            /\ update.posted.metadata = update.existing.metadata
            /\ update.posted.activity = update.existing.activity
            /\ update.posted.restricted = update.existing.restricted
            /\ update.posted.config = update.existing.config
            /\ update.posted.version = update.existing.version
            /\ update.posted.chapters = update.updates.chapters[1])
    /\ [][/\ (update.pc = "get" /\ update'.pc = "post" =>
                  update'.existing = cards[update.cardId])
          /\ (update.pc = "post" /\ update'.pc = "returned" /\ ChaptersOnly =>
                  /\ cards'[update.cardId] = update'.posted
                  /\ \A c \in CardIds \ {update.cardId} : cards'[c] = cards[c]
                  /\ (cards[update.cardId] = update.existing =>
                         cards' = [cards EXCEPT ![update.cardId].chapters =
                                       update.updates.chapters[1]]))]_vars

\* A call with chapters only has returned, on a card the owner had changed
\* from what createPlaylist makes, and has replaced the chapter list.
C35_Witness ==
    /\ update.pc = "returned"
    /\ ChaptersOnly
    /\ ~update.existing.restricted
    /\ update.existing.version = "2"
    /\ update.existing.metadata.cover = "custom.png"
    /\ update.existing.title = "a2"
    /\ update.posted.chapters # update.existing.chapters
    /\ cards[update.cardId] = update.posted

(***************************************************************************)
(* Properties of the stored token (AuthSpec)                               *)
(***************************************************************************)
\* The record auth held a token that was unexpired at time t.
Usable(auth, t) == auth.exists /\ auth.expiresAt > t

\* C36: a stored token is usable only while unexpired.  getToken returns the
\* stored access token exactly when an auth record exists and its expiresAt is
\* strictly greater than the current time, and null otherwise; an
\* authenticated call made then throws before any request is sent, with the
\* message that names the expiry when a record exists and with the message
\* that says not logged in when there is none; a call made with a usable
\* token sends its request with that token.
C36_UsableOnlyUnexpired ==
    /\ getToken(authFile, now) =
           (IF Usable(authFile, now) THEN <<authFile.accessToken>> ELSE <<>>)
    /\ outcome.cmd = "authFetch" =>
           /\ outcome.sent <=> Usable(outcome.before, outcome.at)
           /\ outcome.sent =>
                  /\ outcome.ok
                  /\ outcome.value = outcome.before.accessToken
           /\ ~outcome.sent =>
                  /\ ~outcome.ok
                  /\ outcome.value =
                         (IF outcome.before.exists
                          THEN "Token expired. Please run: yoto login"
                          ELSE "Not logged in. Please run: yoto login")

\* An authenticated call was made in the very second the stored token
\* expired, and was refused as expired without a request.
C36_Witness ==
    /\ outcome.cmd = "authFetch"
    /\ outcome.before.exists
    /\ outcome.before.expiresAt = outcome.at
    /\ ~outcome.sent
    /\ outcome.value = "Token expired. Please run: yoto login"

\* An authenticated call was refused for want of any record.
C36_WitnessNotLoggedIn ==
    /\ outcome.cmd = "authFetch"
    /\ ~outcome.before.exists
    /\ ~outcome.sent
    /\ outcome.value = "Not logged in. Please run: yoto login"

\* C37: login never stores an unusable token.  When the token has no
\* expiration or its expiration is at or before the current time, login throws
\* and the stored auth record is left unchanged, as it is whenever login
\* throws; when login succeeds, the record holds the token without its Bearer
\* prefix and an expiration in the future, and status reports valid until the
\* clock moves; after logout, status reports not_logged_in and getToken returns
\* null, and logout with no stored token changes nothing.
C37_LoginLogout ==
    /\ outcome.cmd = "login" =>
           /\ (outcome.token.exp = <<>> \/ outcome.token.exp[1] <= outcome.at) =>
                  ~outcome.ok
           /\ ~outcome.ok => authFile = outcome.before
           /\ outcome.ok =>
                  /\ authFile = [exists |-> TRUE,
                                 accessToken |-> outcome.token.jwt,
                                 expiresAt |-> outcome.token.exp[1]]
                  /\ Usable(authFile, outcome.at)
                  /\ getToken(authFile, outcome.at) = <<outcome.token.jwt>>
                  /\ now = outcome.at => status(authFile, now).valid
    /\ outcome.cmd = "logout" =>
           /\ ~status(authFile, now).valid
           /\ status(authFile, now).reason = "not_logged_in"
           /\ getToken(authFile, now) = <<>>
           /\ ~outcome.before.exists => authFile = outcome.before

\* login was given a well-formed token expiring in this very second while
\* another token was stored: it threw and the stored record is as it was.
C37_Witness ==
    /\ outcome.cmd = "login"
    /\ ~outcome.ok
    /\ outcome.token.wellFormed
    /\ outcome.token.exp = <<outcome.at>>
    /\ outcome.value = "Token is already expired"
    /\ outcome.before.exists
    /\ outcome.before.accessToken # outcome.token.jwt
    /\ authFile = outcome.before

\* login stored a token pasted with its Bearer prefix, over another one.
C37_WitnessStored ==
    /\ outcome.cmd = "login"
    /\ outcome.ok
    /\ outcome.token.bearer
    /\ RawText(outcome.token) # authFile.accessToken
    /\ outcome.before.exists
    /\ outcome.before # authFile
    /\ now = outcome.at

\* logout removed a stored token; logout found none.
C37_WitnessLogout ==
    /\ outcome.cmd = "logout"
    /\ outcome.before.exists

C37_WitnessLogoutNoop ==
    /\ outcome.cmd = "logout"
    /\ ~outcome.before.exists

====
